---- MODULE Spec2Model ----
(***************************************************************************)
(* Root-patch detection and resolution of OpenCore-Legacy-Patcher:         *)
(* resources/sys_patch/sys_patch_detect.py (class detect_root_patch) with  *)
(* the helpers of resources/utilities.py it calls; build_boot.build of     *)
(* resources/build/boot.py; download_file and the sleep inhibitor of       *)
(* resources/utilities.py.                                                 *)
(*                                                                         *)
(* The machine (model, constants, computer), the state outside the process *)
(* (host: NVRAM, SIP, FileVault, network, KDK, the OCLP plist on the root  *)
(* volume) and the patch catalog are fixed in the initial state; the       *)
(* detector object (det), the module-level csr_values of sip_data and the  *)
(* dictionaries the calls return are what the actions change.              *)
(***************************************************************************)
EXTENDS Integers, Sequences, FiniteSets, TLC

VARIABLES
    model,              \* self.model
    constants,          \* self.constants (the fields the detector reads)
    computer,           \* self.constants.computer
    host,               \* what the probes of utilities.py read from the machine
    catalog,            \* the edition of data/sys_patch_dict.py that is loaded
    det,                \* the detect_root_patch object's own fields
    csr_values,         \* sip_data.system_integrity_protection.csr_values (bits seen set)
    root_patch_dict,    \* the dictionary detect_patch_set returned last
    net_entry,          \* what check_networking_support read when last entered
    required_patches,   \* what generate_patchset returned last: names in order,
                        \* each with the entry of the catalog object it refers to
    resolved,           \* whether generate_patchset has returned
    raised,             \* the exception the last call of generate_patchset raised
    calls,              \* number of detect_patch_set calls so far
    efi_partitions,     \* the internal EFI partitions: the boot loader files on each
    gui_mode,           \* self.constants.gui_mode of build_boot
    bless_override,     \* self.config["Misc"]["BlessOverride"]
    build_returned,     \* what build_boot.build returned last
    build_calls,        \* number of build_boot.build calls so far
    sleep_process,      \* utilities.sleep_process: {} for None, or the caffeinate
                        \* process it holds
    caffeinate,         \* the caffeinate processes that are running
    spawned,            \* number of caffeinate processes started so far
    atexit_registered,  \* whether enable_sleep_after_running is registered with atexit
    location,           \* the file at the download location: {} for none, or its size
    download_returned,  \* what download_file returned last
    download_calls      \* number of download_file calls so far

facts == <<model, constants, computer, host, catalog>>
detector_vars == <<model, constants, computer, host, catalog, det, csr_values,
                   root_patch_dict, net_entry, required_patches, resolved, raised,
                   calls>>
boot_vars == <<efi_partitions, gui_mode, bless_override, build_returned, build_calls>>
download_vars == <<sleep_process, caffeinate, spawned, atexit_registered, location,
                   download_returned, download_calls>>
vars == <<detector_vars, boot_vars, download_vars>>

(***************************************************************************)
(* Bounds of the model.                                                    *)
(***************************************************************************)
MaxGpus == 2
MaxCalls == 2

(***************************************************************************)
(* data/os_data.py: the Darwin kernel major of each release.               *)
(***************************************************************************)
yosemite == 14
high_sierra == 17
mojave == 18
catalina == 19
big_sur == 20
monterey == 21
ventura == 22
max_os == 99

None == "None"

\* The value of a "returned" variable before the first call.
NotCalled == "not called"

(***************************************************************************)
(* device_probe: architectures of a GPU, and its PCI class code.           *)
(***************************************************************************)
NvidiaArchs == {"Tesla", "Fermi", "Kepler", "Maxwell", "Pascal"}
AmdArchs == {"TeraScale_1", "TeraScale_2", "Legacy_GCN_7000", "Legacy_GCN_8000",
             "Legacy_GCN_9000", "Polaris", "Vega", "Navi"}
IntelArchs == {"Iron_Lake", "Sandy_Bridge", "Ivy_Bridge", "Haswell", "Broadwell",
               "Skylake", "Kaby_Lake"}
Archs == NvidiaArchs \cup AmdArchs \cup IntelArchs

ClassCodes == {"0x30000", "0xFFFFFFFF", None}

Gpu(arch, class_code) ==
    [arch |-> arch, class_code |-> class_code,
     disable_metal |-> FALSE, force_compatible |-> FALSE]

\* Sequences of length at most n over S.
SeqsUpTo(S, n) == UNION {[1..k -> S] : k \in 0..n}

(***************************************************************************)
(* detect_root_patch.__init__                                              *)
(***************************************************************************)
FreshDetector ==
    [nvidia_tesla |-> FALSE, kepler_gpu |-> FALSE, nvidia_web |-> FALSE,
     amd_ts1 |-> FALSE, amd_ts2 |-> FALSE, iron_gpu |-> FALSE, sandy_gpu |-> FALSE,
     ivy_gpu |-> FALSE, haswell_gpu |-> FALSE, broadwell_gpu |-> FALSE,
     skylake_gpu |-> FALSE, legacy_gcn |-> FALSE, legacy_polaris |-> FALSE,
     legacy_vega |-> FALSE,
     brightness_legacy |-> FALSE, legacy_audio |-> FALSE, legacy_wifi |-> FALSE,
     legacy_gmux |-> FALSE, legacy_keyboard_backlight |-> FALSE,
     legacy_uhci_ohci |-> FALSE,
     amfi_must_disable |-> FALSE, amfi_shim_bins |-> FALSE, supports_metal |-> FALSE,
     needs_nv_web_checks |-> FALSE, requires_root_kc |-> FALSE,
     sip_enabled |-> FALSE, sbm_enabled |-> FALSE, amfi_enabled |-> FALSE,
     fv_enabled |-> FALSE, dosdude_patched |-> FALSE, missing_kdk |-> FALSE,
     has_network |-> FALSE,
     missing_whatever_green |-> FALSE, missing_nv_web_nvram |-> FALSE,
     missing_nv_web_opengl |-> FALSE, missing_nv_compat |-> FALSE]

(***************************************************************************)
(* Probes.                                                                 *)
(***************************************************************************)
\* str.startswith("MacBook") over the models of the model.
StartsWithMacBook(m) == m \in {"MacBookPro8,2", "MacBookPro13,3"}

check_legacy_keyboard_backlight ==
    IF StartsWithMacBook(model) THEN computer.ambient_light_sensor ELSE FALSE

check_kdk == host.kdk_present

verify_network_connection == host.has_network

check_kext_loaded(kext_name) == kext_name \in host.kexts_loaded

check_dgpu_status ==
    IF computer.dgpu # None
    THEN IF computer.dgpu = "0xFFFFFFFF" THEN FALSE ELSE TRUE
    ELSE FALSE

detect_demux ==
    IF "-wegnoegpu" \notin host.boot_args
    THEN computer.igpu /\ ~check_dgpu_status
    ELSE FALSE

check_nv_web_nvram ==
    \/ "nvda_drv_vrl=" \in host.boot_args
    \/ host.nvda_drv

\* gpus is self.constants.computer.gpus, here and below.
check_nv_web_opengl(gpus) ==
    \/ "ngfxgl=" \in host.boot_args
    \/ \E i \in DOMAIN gpus :
         gpus[i].arch \in NvidiaArchs /\ gpus[i].disable_metal

check_nv_compat(gpus) ==
    \/ "ngfxcompat=" \in host.boot_args
    \/ \E i \in DOMAIN gpus :
         gpus[i].arch \in NvidiaArchs /\ gpus[i].force_compatible

check_whatevergreen == check_kext_loaded("WhateverGreen")

(***************************************************************************)
(* detect_gpus: the body of the loop for one GPU (lines 69-197).           *)
(***************************************************************************)
ShimBins(d) == IF ventura \in constants.legacy_accel_support THEN TRUE ELSE d.amfi_shim_bins

\* KeplerOnHostOs that takes every Monterey build to carry the Kepler drivers.
KeplerOnEveryBuild == constants.detected_os >= monterey

KeplerOnHostOs ==
    \/ constants.detected_os >= ventura
    \/ /\ constants.detected_os_build # "21A5506j"
       /\ constants.detected_os = monterey
       /\ constants.detected_os_minor > 0

detect_gpu(d, gpu) ==
    IF ~(gpu.class_code # None /\ gpu.class_code # "0xFFFFFFFF") THEN d
    ELSE IF gpu.arch = "Tesla" /\ constants.force_nv_web = FALSE THEN
        IF constants.detected_os > catalina
        THEN [d EXCEPT !.nvidia_tesla = TRUE, !.amfi_must_disable = TRUE,
                       !.amfi_shim_bins = ShimBins(d),
                       !.legacy_keyboard_backlight = check_legacy_keyboard_backlight,
                       !.requires_root_kc = TRUE]
        ELSE d
    ELSE IF gpu.arch = "Kepler" /\ constants.force_nv_web = FALSE THEN
        IF constants.detected_os > big_sur /\ KeplerOnHostOs
        THEN [d EXCEPT !.kepler_gpu = TRUE, !.supports_metal = TRUE,
                       !.amfi_must_disable =
                           IF constants.detected_os >= ventura THEN TRUE ELSE @]
        ELSE d
    ELSE IF gpu.arch \in {"Fermi", "Kepler", "Maxwell", "Pascal"} THEN
        IF constants.detected_os > mojave
        THEN [d EXCEPT !.nvidia_web = TRUE, !.amfi_must_disable = TRUE,
                       !.amfi_shim_bins = ShimBins(d),
                       !.needs_nv_web_checks = TRUE, !.requires_root_kc = TRUE]
        ELSE d
    ELSE IF gpu.arch = "TeraScale_1" THEN
        IF constants.detected_os > catalina
        THEN [d EXCEPT !.amd_ts1 = TRUE, !.amfi_must_disable = TRUE,
                       !.amfi_shim_bins = ShimBins(d), !.requires_root_kc = TRUE]
        ELSE d
    ELSE IF gpu.arch = "TeraScale_2" THEN
        IF constants.detected_os > catalina
        THEN [d EXCEPT !.amd_ts2 = TRUE, !.amfi_must_disable = TRUE,
                       !.amfi_shim_bins = ShimBins(d), !.requires_root_kc = TRUE]
        ELSE d
    ELSE IF gpu.arch \in {"Legacy_GCN_7000", "Legacy_GCN_8000", "Legacy_GCN_9000",
                          "Polaris"} THEN
        IF constants.detected_os > monterey THEN
            IF computer.rosetta_active = TRUE THEN d                    \* continue
            ELSE IF gpu.arch = "Polaris" /\ model # "MacBookPro13,3"
                    /\ "AVX2" \in computer.cpu_leafs THEN d              \* continue
            ELSE [d EXCEPT !.legacy_polaris =
                               IF gpu.arch = "Polaris" /\ model # "MacBookPro13,3"
                               THEN TRUE ELSE @,
                           !.legacy_gcn =
                               IF gpu.arch = "Polaris" /\ model # "MacBookPro13,3"
                               THEN @ ELSE TRUE,
                           !.supports_metal = TRUE, !.requires_root_kc = TRUE,
                           !.amfi_must_disable = TRUE]
        ELSE d
    ELSE IF gpu.arch = "Vega" THEN
        IF constants.detected_os > monterey THEN
            IF "AVX2" \in computer.cpu_leafs THEN d                      \* continue
            ELSE [d EXCEPT !.legacy_vega = TRUE, !.supports_metal = TRUE,
                           !.requires_root_kc = TRUE, !.amfi_must_disable = TRUE]
        ELSE d
    ELSE IF gpu.arch = "Iron_Lake" THEN
        IF constants.detected_os > catalina
        THEN [d EXCEPT !.iron_gpu = TRUE, !.amfi_must_disable = TRUE,
                       !.amfi_shim_bins = ShimBins(d),
                       !.legacy_keyboard_backlight = check_legacy_keyboard_backlight,
                       !.requires_root_kc = TRUE]
        ELSE d
    ELSE IF gpu.arch = "Sandy_Bridge" THEN
        IF constants.detected_os > catalina
        THEN [d EXCEPT !.sandy_gpu = TRUE, !.amfi_must_disable = TRUE,
                       !.amfi_shim_bins = ShimBins(d),
                       !.legacy_keyboard_backlight = check_legacy_keyboard_backlight,
                       !.requires_root_kc = TRUE]
        ELSE d
    ELSE IF gpu.arch = "Ivy_Bridge" THEN
        IF constants.detected_os > big_sur
        THEN [d EXCEPT !.ivy_gpu = TRUE,
                       !.amfi_must_disable =
                           IF constants.detected_os >= ventura THEN TRUE ELSE @,
                       !.supports_metal = TRUE]
        ELSE d
    ELSE IF gpu.arch = "Haswell" THEN
        IF constants.detected_os > monterey
        THEN [d EXCEPT !.haswell_gpu = TRUE, !.amfi_must_disable = TRUE,
                       !.supports_metal = TRUE]
        ELSE d
    ELSE IF gpu.arch = "Broadwell" THEN
        IF constants.detected_os > monterey
        THEN [d EXCEPT !.broadwell_gpu = TRUE, !.amfi_must_disable = TRUE,
                       !.supports_metal = TRUE]
        ELSE d
    ELSE IF gpu.arch = "Skylake" THEN
        IF constants.detected_os > monterey
        THEN [d EXCEPT !.skylake_gpu = TRUE, !.amfi_must_disable = TRUE,
                       !.supports_metal = TRUE]
        ELSE d
    ELSE d

\* detect_gpus_loop that leaves the loop at the first GPU with Metal support.
RECURSIVE detect_gpus_loop_until_metal(_, _, _)
detect_gpus_loop_until_metal(gpus, d, i) ==
    IF i > Len(gpus) \/ d.supports_metal = TRUE THEN d
    ELSE detect_gpus_loop_until_metal(gpus, detect_gpu(d, gpus[i]), i + 1)

\* for i, gpu in enumerate(gpus): the loop from GPU i on.
RECURSIVE detect_gpus_loop(_, _, _)
detect_gpus_loop(gpus, d, i) ==
    IF i > Len(gpus) THEN d
    ELSE detect_gpus_loop(gpus, detect_gpu(d, gpus[i]), i + 1)

(***************************************************************************)
(* detect_gpus, after the loop (lines 198-222).                            *)
(***************************************************************************)
\* prioritize_metal that leaves the Web Drivers flag.
prioritize_metal_keeping_web(d) ==
    IF d.supports_metal = TRUE
    THEN [d EXCEPT !.nvidia_tesla = FALSE, !.amd_ts1 = FALSE,
                   !.amd_ts2 = FALSE, !.iron_gpu = FALSE, !.sandy_gpu = FALSE,
                   !.legacy_keyboard_backlight = FALSE]
    ELSE d

\* Lines 198-207.
prioritize_metal(d) ==
    IF d.supports_metal = TRUE
    THEN [d EXCEPT !.nvidia_tesla = FALSE, !.nvidia_web = FALSE, !.amd_ts1 = FALSE,
                   !.amd_ts2 = FALSE, !.iron_gpu = FALSE, !.sandy_gpu = FALSE,
                   !.legacy_keyboard_backlight = FALSE]
    ELSE d

\* prioritize_legacy_gcn that leaves the Vega flag.
prioritize_legacy_gcn_keeping_vega(d) ==
    IF d.legacy_gcn = TRUE
    THEN [d EXCEPT !.legacy_polaris = FALSE]
    ELSE d

\* Lines 209-215.
prioritize_legacy_gcn(d) ==
    IF d.legacy_gcn = TRUE
    THEN [d EXCEPT !.legacy_polaris = FALSE, !.legacy_vega = FALSE]
    ELSE d

root_kc_and_kdk(d) ==
    IF constants.detected_os <= monterey
    THEN [d EXCEPT !.requires_root_kc = TRUE]
    ELSE IF d.requires_root_kc = TRUE
         THEN [d EXCEPT !.missing_kdk = ~check_kdk]
         ELSE d

(***************************************************************************)
(* check_networking_support (lines 227-271).                               *)
(***************************************************************************)
\* "Legacy Wireless" in the OpenCore-Legacy-Patcher.plist of the root volume;
\* host.oclp_plist holds the keys of the file, in a set that is empty when
\* the file does not exist.
wireless_already_patched ==
    \E oclp_plist \in host.oclp_plist : "Legacy Wireless" \in oclp_plist

\* The fields of det that lines 234-243 test.
networking_inputs(d) ==
    [legacy_wifi |-> d.legacy_wifi, requires_root_kc |-> d.requires_root_kc,
     missing_kdk |-> d.missing_kdk, has_network |-> d.has_network]

\* check_networking_support that does not look for the plist of an earlier run.
check_networking_support_no_record(d) ==
    IF constants.detected_os < ventura THEN d
    ELSE IF d.legacy_wifi = FALSE THEN d
    ELSE IF d.requires_root_kc = FALSE THEN d
    ELSE IF d.missing_kdk = FALSE THEN d
    ELSE IF d.has_network = TRUE THEN d
    ELSE [d EXCEPT !.missing_kdk = FALSE, !.requires_root_kc = FALSE,
                   !.nvidia_tesla = FALSE, !.nvidia_web = FALSE, !.amd_ts1 = FALSE,
                   !.amd_ts2 = FALSE, !.iron_gpu = FALSE, !.sandy_gpu = FALSE,
                   !.legacy_gcn = FALSE, !.legacy_polaris = FALSE,
                   !.legacy_vega = FALSE, !.brightness_legacy = FALSE,
                   !.legacy_audio = FALSE, !.legacy_gmux = FALSE,
                   !.legacy_keyboard_backlight = FALSE]

\* check_networking_support that returns when no record of an earlier run exists.
check_networking_support_first_run(d) ==
    IF constants.detected_os < ventura THEN d
    ELSE IF d.legacy_wifi = FALSE THEN d
    ELSE IF d.requires_root_kc = FALSE THEN d
    ELSE IF d.missing_kdk = FALSE THEN d
    ELSE IF d.has_network = TRUE THEN d
    ELSE IF ~wireless_already_patched THEN d
    ELSE [d EXCEPT !.missing_kdk = FALSE, !.requires_root_kc = FALSE,
                   !.nvidia_tesla = FALSE, !.nvidia_web = FALSE, !.amd_ts1 = FALSE,
                   !.amd_ts2 = FALSE, !.iron_gpu = FALSE, !.sandy_gpu = FALSE,
                   !.legacy_gcn = FALSE, !.legacy_polaris = FALSE,
                   !.legacy_vega = FALSE, !.brightness_legacy = FALSE,
                   !.legacy_audio = FALSE, !.legacy_gmux = FALSE,
                   !.legacy_keyboard_backlight = FALSE]

\* check_networking_support that resets the legacy wireless flag with the others.
check_networking_support_clearing_wifi(d) ==
    IF constants.detected_os < ventura THEN d
    ELSE IF d.legacy_wifi = FALSE THEN d
    ELSE IF d.requires_root_kc = FALSE THEN d
    ELSE IF d.missing_kdk = FALSE THEN d
    ELSE IF d.has_network = TRUE THEN d
    ELSE IF wireless_already_patched THEN d
    ELSE [d EXCEPT !.missing_kdk = FALSE, !.requires_root_kc = FALSE,
                   !.nvidia_tesla = FALSE, !.nvidia_web = FALSE, !.amd_ts1 = FALSE,
                   !.amd_ts2 = FALSE, !.iron_gpu = FALSE, !.sandy_gpu = FALSE,
                   !.legacy_gcn = FALSE, !.legacy_polaris = FALSE,
                   !.legacy_vega = FALSE, !.brightness_legacy = FALSE,
                   !.legacy_audio = FALSE, !.legacy_gmux = FALSE,
                   !.legacy_keyboard_backlight = FALSE, !.legacy_wifi = FALSE]

check_networking_support(d) ==
    IF constants.detected_os < ventura THEN d
    ELSE IF d.legacy_wifi = FALSE THEN d
    ELSE IF d.requires_root_kc = FALSE THEN d
    ELSE IF d.missing_kdk = FALSE THEN d
    ELSE IF d.has_network = TRUE THEN d
    ELSE IF wireless_already_patched THEN d
    ELSE [d EXCEPT !.missing_kdk = FALSE, !.requires_root_kc = FALSE,
                   !.nvidia_tesla = FALSE, !.nvidia_web = FALSE, !.amd_ts1 = FALSE,
                   !.amd_ts2 = FALSE, !.iron_gpu = FALSE, !.sandy_gpu = FALSE,
                   !.legacy_gcn = FALSE, !.legacy_polaris = FALSE,
                   !.legacy_vega = FALSE, !.brightness_legacy = FALSE,
                   !.legacy_audio = FALSE, !.legacy_gmux = FALSE,
                   !.legacy_keyboard_backlight = FALSE]

\* det as check_networking_support finds it: detect_gpus up to line 222.
before_networking(gpus, d) ==
    root_kc_and_kdk(prioritize_legacy_gcn(prioritize_metal(detect_gpus_loop(gpus, d, 1))))

detect_gpus(gpus, d) == check_networking_support(before_networking(gpus, d))

(***************************************************************************)
(* Data of the repository the detector reads: data/model_array.py,         *)
(* data/smbios_data.py, data/cpu_data.py, data/sip_data.py.                *)
(***************************************************************************)
Models == {"MacBookPro8,2", "MacBookPro13,3", "iMac7,1", "iMac9,1", "MacPro5,1"}
LegacyBrightness == {"iMac7,1", "iMac9,1"}
LegacyAudio == {"iMac7,1", "iMac9,1"}
smbios_dictionary == Models
penryn == 3
CpuGeneration(m) ==
    CASE m \in {"iMac7,1", "iMac9,1"} -> 3
      [] m = "MacPro5,1" -> 4
      [] m = "MacBookPro8,2" -> 5
      [] OTHER -> 9

\* The csr-active-config bits each list of sip_data names, by bit number.
root_patch_sip_mojave == {0, 1, 9, 10}
root_patch_sip_big_sur == {1, 11}
root_patch_sip_big_sur_3rd_part_kexts == {0, 1, 9, 11}
root_patch_sip_ventura == {0, 1, 11}

LegacyWifiChipsets == {"AirPortBrcm4331", "AirPortBrcm43224", "AirPortAtheros40"}

(***************************************************************************)
(* check_sip, check_uhci_ohci, get_amfi_level_needed.                      *)
(***************************************************************************)
check_sip(d) ==
    IF constants.detected_os > catalina THEN
        IF d.nvidia_web = TRUE
        THEN [sip |-> root_patch_sip_big_sur_3rd_part_kexts, sip_hex |-> "0xA03"]
        ELSE IF constants.detected_os >= ventura
        THEN [sip |-> root_patch_sip_ventura, sip_hex |-> "0x803"]
        ELSE [sip |-> root_patch_sip_big_sur, sip_hex |-> "0x802"]
    ELSE [sip |-> root_patch_sip_mojave, sip_hex |-> "0x603"]

check_uhci_ohci ==
    IF constants.detected_os < ventura THEN FALSE
    ELSE IF "XHCI" \in computer.usb_controllers THEN FALSE
    ELSE IF constants.host_is_hackintosh = TRUE
         THEN computer.usb_controllers \cap {"UHCI", "OHCI"} # {}
    ELSE IF model \notin smbios_dictionary THEN FALSE
    ELSE IF CpuGeneration(model) <= penryn \/ model \in {"MacPro4,1", "MacPro5,1"}
         THEN TRUE
    ELSE FALSE

get_amfi_level_needed(d) ==
    IF d.amfi_must_disable = TRUE /\ constants.detected_os > catalina
    THEN IF constants.detected_os >= ventura /\ d.amfi_shim_bins = TRUE THEN 3 ELSE 1
    ELSE 0

(***************************************************************************)
(* utilities.csr_decode and utilities.patching_status; amfi_detect.        *)
(***************************************************************************)
\* csr_values after csr_decode: every bit of the booted SIP value is recorded
\* in the module-level dictionary, and none is ever reset.
csr_decode_values(csr) == csr \cup host.sip_status

csr_decode(csr, os_sip) ==
    LET sip_needs_change == os_sip \subseteq csr_decode_values(csr)
    IN  IF sip_needs_change = TRUE THEN FALSE ELSE TRUE

patching_status(csr, os_sip, os) ==
    [sip_enabled |-> IF os > yosemite THEN csr_decode(csr, os_sip) ELSE FALSE,
     sbm_enabled |-> host.secure_boot,
     fv_enabled |-> IF os > catalina /\ ~host.allow_fv
                    THEN host.fv_status # "FileVault is Off"
                    ELSE FALSE,
     dosdude_patched |-> host.dosdude_kexts]

patching_status_values(csr, os) ==
    IF os > yosemite THEN csr_decode_values(csr) ELSE csr

\* amfi_configuration_detection().check_config(level)
check_config(level) ==
    CASE level = 0 -> TRUE
      [] level = 1 -> host.amfi \in {"library validation off", "off"}
      [] OTHER -> host.amfi = "off"

(***************************************************************************)
(* verify_patch_allowed (print_errors=False) and verify_unpatch_allowed.   *)
(***************************************************************************)
\* det after lines 499-510.
verify_patch_status(gpus, d, csr) ==
    LET st == patching_status(csr, check_sip(d).sip, constants.detected_os)
        d1 == [d EXCEPT !.sip_enabled = st.sip_enabled, !.sbm_enabled = st.sbm_enabled,
                        !.fv_enabled = st.fv_enabled,
                        !.dosdude_patched = st.dosdude_patched,
                        !.amfi_enabled = ~check_config(get_amfi_level_needed(d))]
    IN  IF d1.nvidia_web = TRUE
        THEN [d1 EXCEPT !.missing_nv_web_nvram = ~check_nv_web_nvram,
                        !.missing_nv_web_opengl = ~check_nv_web_opengl(gpus),
                        !.missing_nv_compat = ~check_nv_compat(gpus),
                        !.missing_whatever_green = ~check_whatevergreen]
        ELSE d1

\* network_required that does not ask whether a KDK is needed and missing.
network_required_any(d) ==
    IF constants.detected_os >= ventura THEN ~d.has_network ELSE FALSE

network_required(d) ==
    IF d.requires_root_kc /\ d.missing_kdk /\ constants.detected_os >= ventura
    THEN ~d.has_network ELSE FALSE

\* patch_allowed with SIP left out of the list.
patch_allowed_without_sip(d) ==
    IF \/ d.sbm_enabled \/ d.fv_enabled \/ d.dosdude_patched
       \/ (IF d.amfi_must_disable = TRUE THEN d.amfi_enabled ELSE FALSE)
       \/ (IF d.nvidia_web = TRUE THEN d.missing_nv_web_nvram ELSE FALSE)
       \/ (IF d.nvidia_web = TRUE THEN d.missing_nv_web_opengl ELSE FALSE)
       \/ (IF d.nvidia_web = TRUE THEN d.missing_nv_compat ELSE FALSE)
       \/ (IF d.nvidia_web = TRUE THEN d.missing_whatever_green ELSE FALSE)
       \/ (IF d.requires_root_kc /\ d.missing_kdk /\ constants.detected_os >= ventura
           THEN ~d.has_network ELSE FALSE)
    THEN FALSE
    ELSE TRUE

\* patch_allowed with FileVault left out of the list.
patch_allowed_without_fv(d) ==
    IF \/ d.sip_enabled \/ d.sbm_enabled \/ d.dosdude_patched
       \/ (IF d.amfi_must_disable = TRUE THEN d.amfi_enabled ELSE FALSE)
       \/ (IF d.nvidia_web = TRUE THEN d.missing_nv_web_nvram ELSE FALSE)
       \/ (IF d.nvidia_web = TRUE THEN d.missing_nv_web_opengl ELSE FALSE)
       \/ (IF d.nvidia_web = TRUE THEN d.missing_nv_compat ELSE FALSE)
       \/ (IF d.nvidia_web = TRUE THEN d.missing_whatever_green ELSE FALSE)
       \/ (IF d.requires_root_kc /\ d.missing_kdk /\ constants.detected_os >= ventura
           THEN ~d.has_network ELSE FALSE)
    THEN FALSE
    ELSE TRUE

\* The value returned, lines 559-579, of det as lines 499-510 left it.
patch_allowed(d) ==
    IF \/ d.sip_enabled \/ d.sbm_enabled \/ d.fv_enabled \/ d.dosdude_patched
       \/ (IF d.amfi_must_disable = TRUE THEN d.amfi_enabled ELSE FALSE)
       \/ (IF d.nvidia_web = TRUE THEN d.missing_nv_web_nvram ELSE FALSE)
       \/ (IF d.nvidia_web = TRUE THEN d.missing_nv_web_opengl ELSE FALSE)
       \/ (IF d.nvidia_web = TRUE THEN d.missing_nv_compat ELSE FALSE)
       \/ (IF d.nvidia_web = TRUE THEN d.missing_whatever_green ELSE FALSE)
       \/ network_required(d)
    THEN FALSE
    ELSE TRUE

\* verify_unpatch_allowed gated on FileVault as well.
verify_unpatch_allowed_fv(d) == ~d.sip_enabled /\ ~d.fv_enabled

verify_unpatch_allowed(d) == ~d.sip_enabled

(***************************************************************************)
(* detect_patch_set (lines 403-485).                                       *)
(***************************************************************************)
\* before_detect_gpus that skips the USB 1.1 check once the flag is set.
before_detect_gpus_usb_once(d) ==
    LET d0 == [d EXCEPT !.has_network = verify_network_connection]
        d1 == IF check_uhci_ohci = TRUE /\ d.legacy_uhci_ohci = FALSE
              THEN [d0 EXCEPT !.legacy_uhci_ohci = TRUE, !.requires_root_kc = TRUE]
              ELSE d0
        d2 == IF model \in LegacyBrightness /\ constants.detected_os > catalina
              THEN [d1 EXCEPT !.brightness_legacy = TRUE]
              ELSE d1
        d3 == IF /\ \/ model \in {"iMac7,1", "iMac8,1"}
                    \/ (model \in LegacyAudio /\ check_kext_loaded("AppleALC") = FALSE)
                 /\ constants.detected_os > catalina
              THEN [d2 EXCEPT !.legacy_audio = TRUE]
              ELSE d2
        d4 == IF computer.wifi \in LegacyWifiChipsets /\ constants.detected_os > big_sur
              THEN [d3 EXCEPT !.legacy_wifi = TRUE,
                              !.amfi_must_disable =
                                  IF constants.detected_os >= ventura THEN TRUE ELSE @]
              ELSE d3
    IN  IF /\ model \in {"MacBookPro8,2", "MacBookPro8,3"}
           /\ constants.detected_os > high_sierra
           /\ detect_demux = TRUE
        THEN [d4 EXCEPT !.legacy_gmux = TRUE]
        ELSE d4

\* det as detect_gpus finds it: lines 404-442.
before_detect_gpus(d) ==
    LET d0 == [d EXCEPT !.has_network = verify_network_connection]
        d1 == IF check_uhci_ohci = TRUE
              THEN [d0 EXCEPT !.legacy_uhci_ohci = TRUE, !.requires_root_kc = TRUE]
              ELSE d0
        d2 == IF model \in LegacyBrightness /\ constants.detected_os > catalina
              THEN [d1 EXCEPT !.brightness_legacy = TRUE]
              ELSE d1
        d3 == IF /\ \/ model \in {"iMac7,1", "iMac8,1"}
                    \/ (model \in LegacyAudio /\ check_kext_loaded("AppleALC") = FALSE)
                 /\ constants.detected_os > catalina
              THEN [d2 EXCEPT !.legacy_audio = TRUE]
              ELSE d2
        d4 == IF computer.wifi \in LegacyWifiChipsets /\ constants.detected_os > big_sur
              THEN [d3 EXCEPT !.legacy_wifi = TRUE,
                              !.amfi_must_disable =
                                  IF constants.detected_os >= ventura THEN TRUE ELSE @]
              ELSE d3
    IN  IF /\ model \in {"MacBookPro8,2", "MacBookPro8,3"}
           /\ constants.detected_os > high_sierra
           /\ detect_demux = TRUE
        THEN [d4 EXCEPT !.legacy_gmux = TRUE]
        ELSE d4

AmfiKey(d) ==
    IF constants.host_is_hackintosh = TRUE \/ get_amfi_level_needed(d) > 2
    THEN "Validation: AMFI is enabled"
    ELSE "Validation: Library Validation is enabled"

SipKey(d) == "Validation: SIP is enabled (Required: " \o check_sip(d).sip_hex \o " or higher)"

\* The dictionary of lines 446-483: d is det when the literal is entered, v is det
\* once verify_patch_allowed (the value of "Validation: Patching Possible") has run.
patch_dict(d, v) ==
    ("Graphics: Nvidia Tesla" :> d.nvidia_tesla) @@
    ("Graphics: Nvidia Kepler" :> d.kepler_gpu) @@
    ("Graphics: Nvidia Web Drivers" :> d.nvidia_web) @@
    ("Graphics: AMD TeraScale 1" :> d.amd_ts1) @@
    ("Graphics: AMD TeraScale 2" :> d.amd_ts2) @@
    ("Graphics: AMD Legacy GCN" :> d.legacy_gcn) @@
    ("Graphics: AMD Legacy Polaris" :> d.legacy_polaris) @@
    ("Graphics: AMD Legacy Vega" :> d.legacy_vega) @@
    ("Graphics: Intel Ironlake" :> d.iron_gpu) @@
    ("Graphics: Intel Sandy Bridge" :> d.sandy_gpu) @@
    ("Graphics: Intel Ivy Bridge" :> d.ivy_gpu) @@
    ("Graphics: Intel Haswell" :> d.haswell_gpu) @@
    ("Graphics: Intel Broadwell" :> d.broadwell_gpu) @@
    ("Graphics: Intel Skylake" :> d.skylake_gpu) @@
    ("Brightness: Legacy Backlight Control" :> d.brightness_legacy) @@
    ("Audio: Legacy Realtek" :> d.legacy_audio) @@
    ("Networking: Legacy Wireless" :> d.legacy_wifi) @@
    ("Miscellaneous: Legacy GMUX" :> d.legacy_gmux) @@
    ("Miscellaneous: Legacy Keyboard Backlight" :> d.legacy_keyboard_backlight) @@
    ("Miscellaneous: Legacy USB 1.1" :> d.legacy_uhci_ohci) @@
    ("Settings: Requires AMFI exemption" :> d.amfi_must_disable) @@
    ("Settings: Supports Auxiliary Cache" :> ~d.requires_root_kc) @@
    ("Settings: Kernel Debug Kit missing" :>
        IF constants.detected_os >= ventura THEN d.missing_kdk ELSE FALSE) @@
    ("Validation: Patching Possible" :> patch_allowed(v)) @@
    ("Validation: Unpatching Possible" :> verify_unpatch_allowed(v)) @@
    (SipKey(v) :> v.sip_enabled) @@
    ("Validation: Currently Booted SIP" :> v.sip_enabled) @@
    ("Validation: SecureBootModel is enabled" :> v.sbm_enabled) @@
    (AmfiKey(v) :> IF v.amfi_must_disable = TRUE THEN v.amfi_enabled ELSE FALSE) @@
    ("Validation: FileVault is enabled" :> v.fv_enabled) @@
    ("Validation: System is dosdude1 patched" :> v.dosdude_patched) @@
    ("Validation: WhateverGreen.kext missing" :>
        IF v.nvidia_web = TRUE THEN v.missing_whatever_green ELSE FALSE) @@
    ("Validation: Force OpenGL property missing" :>
        IF v.nvidia_web = TRUE THEN v.missing_nv_web_opengl ELSE FALSE) @@
    ("Validation: Force compat property missing" :>
        IF v.nvidia_web = TRUE THEN v.missing_nv_compat ELSE FALSE) @@
    ("Validation: nvda_drv(_vrl) variable missing" :>
        IF v.nvidia_web = TRUE THEN v.missing_nv_web_nvram ELSE FALSE) @@
    ("Validation: Network Connection Required" :> network_required(v))

\* What detect_patch_set returns on a detector in state d0 for the GPU list gpus.
detect_patch_set(gpus, d0, csr) ==
    LET d == detect_gpus(gpus, before_detect_gpus(d0))
    IN  patch_dict(d, verify_patch_status(gpus, d, csr))

DetectPatchSet ==
    /\ calls < MaxCalls
    /\ LET d == detect_gpus(computer.gpus, before_detect_gpus(det))
           v == verify_patch_status(computer.gpus, d, csr_values)
       IN  /\ det' = v
           /\ csr_values' = patching_status_values(csr_values, constants.detected_os)
           /\ root_patch_dict' = detect_patch_set(computer.gpus, det, csr_values)
           /\ net_entry' = networking_inputs(
                               before_networking(computer.gpus, before_detect_gpus(det)))
    /\ calls' = calls + 1
    /\ UNCHANGED <<facts, required_patches, resolved, raised>>
    /\ UNCHANGED <<boot_vars, download_vars>>

(***************************************************************************)
(* The patch catalog, data/sys_patch_dict.py: per entry the OS range       *)
(* ("OS Support", (major, minor) pairs) and what it installs.              *)
(***************************************************************************)
PatchNames ==
    {"Non-Metal Common", "Non-Metal IOAccelerator Common", "Non-Metal CoreDisplay Common",
     "Non-Metal Enforcement", "Non-Metal ColorSync Workaround", "High Sierra GVA",
     "WebKit Monterey Common", "Metal 3802 Common", "Catalina GVA", "Monterey GVA",
     "Monterey OpenCL", "Big Sur OpenCL", "AMD OpenCL", "Revert Metal Downgrade",
     "Intel Ironlake", "Intel Sandy Bridge", "Intel Ivy Bridge", "Intel Haswell",
     "Intel Broadwell", "Intel Skylake", "Nvidia Tesla", "Nvidia Web Drivers",
     "Nvidia Kepler", "AMD TeraScale Common", "AMD TeraScale 1", "AMD TeraScale 2",
     "AMD Legacy GCN", "AMD Legacy Polaris", "AMD Legacy Vega",
     "AMD Legacy Vega Extended", "Legacy Backlight Control", "Legacy Realtek",
     "Legacy Non-GOP", "Legacy Wireless", "Legacy Wireless Extended", "Legacy GMUX",
     "Legacy Keyboard Backlight", "Legacy USB 1.1"}

\* The first release an entry applies to, and the last.
MinimumOsMajor(name) ==
    CASE name \in {"Metal 3802 Common", "Monterey GVA", "Monterey OpenCL", "AMD OpenCL",
                   "Revert Metal Downgrade", "Intel Haswell", "Intel Broadwell",
                   "Intel Skylake", "AMD Legacy GCN", "AMD Legacy Polaris",
                   "AMD Legacy Vega", "AMD Legacy Vega Extended",
                   "Legacy Wireless Extended", "Legacy USB 1.1"} -> ventura
      [] name \in {"Catalina GVA", "Big Sur OpenCL", "WebKit Monterey Common",
                   "Intel Ivy Bridge", "Nvidia Kepler", "Legacy Wireless"} -> monterey
      [] OTHER -> big_sur

MaximumOsMajor(name) ==
    IF name = "WebKit Monterey Common" THEN monterey ELSE max_os

Install(name) ==
    IF name = "AMD TeraScale 2"
    THEN {"AMD6000Controller.kext", "AMDRadeonX4000.kext", "AMDRadeonX3000.kext"}
    ELSE {name}

\* The names an edition of the catalog holds.
EntryNames(edition) == PatchNames \ edition.absent

\* The dictionary SystemPatchDictionary(...) builds; the edition says at which
\* minor the ranges of the entries start and end.
SystemPatchDictionary(edition) ==
    [name \in EntryNames(edition) |->
        [min |-> <<MinimumOsMajor(name), edition.min_minor>>,
         max |-> <<MaximumOsMajor(name), edition.max_minor>>,
         install |-> Install(name)]]

(***************************************************************************)
(* generate_patchset (lines 585-712).                                      *)
(***************************************************************************)
\* The names the block of one flag passes to required_patches.update, in order
\* (lines 590-692); hd is hardware_details.
FlagBlocks == 1..19

\* mdl is self.model and comp is self.constants.computer.
block_names(i, hd, mdl, comp) ==
    CASE i = 1 -> IF hd["Graphics: Intel Ironlake"] = TRUE
                  THEN <<"Non-Metal Common", "WebKit Monterey Common", "Intel Ironlake">>
                  ELSE <<>>
      [] i = 2 -> IF hd["Graphics: Intel Sandy Bridge"] = TRUE
                  THEN <<"Non-Metal Common", "Non-Metal ColorSync Workaround",
                         "High Sierra GVA", "WebKit Monterey Common",
                         "Intel Sandy Bridge">>
                  ELSE <<>>
      [] i = 3 -> IF hd["Graphics: Intel Ivy Bridge"] = TRUE
                  THEN <<"Metal 3802 Common", "Catalina GVA", "Monterey OpenCL",
                         "Big Sur OpenCL", "WebKit Monterey Common", "Intel Ivy Bridge">>
                  ELSE <<>>
      [] i = 4 -> IF hd["Graphics: Intel Haswell"] = TRUE
                  THEN <<"Metal 3802 Common", "Monterey GVA", "Monterey OpenCL",
                         "Intel Haswell">>
                  ELSE <<>>
      [] i = 5 -> IF hd["Graphics: Intel Broadwell"] = TRUE
                  THEN <<"Monterey GVA", "Monterey OpenCL", "Intel Broadwell">>
                  ELSE <<>>
      [] i = 6 -> IF hd["Graphics: Intel Skylake"] = TRUE
                  THEN <<"Monterey GVA", "Monterey OpenCL", "Intel Skylake">>
                  ELSE <<>>
      [] i = 7 -> IF hd["Graphics: Nvidia Tesla"] = TRUE
                  THEN <<"Non-Metal Common", "WebKit Monterey Common", "Nvidia Tesla">>
                  ELSE <<>>
      [] i = 8 -> IF hd["Graphics: Nvidia Web Drivers"] = TRUE
                  THEN <<"Non-Metal Common", "Non-Metal IOAccelerator Common",
                         "Non-Metal CoreDisplay Common", "WebKit Monterey Common",
                         "Nvidia Web Drivers", "Non-Metal Enforcement">>
                  ELSE <<>>
      [] i = 9 -> IF hd["Graphics: Nvidia Kepler"] = TRUE
                  THEN <<"Revert Metal Downgrade", "Metal 3802 Common", "Catalina GVA",
                         "Monterey OpenCL", "Big Sur OpenCL", "WebKit Monterey Common",
                         "Nvidia Kepler">>
                  ELSE <<>>
      [] i = 10 -> IF hd["Graphics: AMD TeraScale 1"] = TRUE
                   THEN <<"Non-Metal Common", "WebKit Monterey Common",
                          "AMD TeraScale Common", "AMD TeraScale 1">>
                   ELSE <<>>
      [] i = 11 -> IF hd["Graphics: AMD TeraScale 2"] = TRUE
                   THEN <<"Non-Metal Common", "Non-Metal IOAccelerator Common",
                          "WebKit Monterey Common", "AMD TeraScale Common",
                          "AMD TeraScale 2">>
                   ELSE <<>>
      [] i = 12 -> IF hd["Graphics: AMD Legacy GCN"] = TRUE
                      \/ hd["Graphics: AMD Legacy Polaris"] = TRUE
                   THEN <<"Revert Metal Downgrade", "Monterey GVA", "Monterey OpenCL">>
                        \o (IF hd["Graphics: AMD Legacy GCN"] = TRUE
                            THEN <<"AMD Legacy GCN">> ELSE <<"AMD Legacy Polaris">>)
                        \o (IF "AVX2" \notin comp.cpu_leafs
                            THEN <<"AMD OpenCL">> ELSE <<>>)
                   ELSE <<>>
      [] i = 13 -> IF hd["Graphics: AMD Legacy Vega"] = TRUE
                   THEN <<"Monterey GVA", "Monterey OpenCL", "AMD Legacy Vega",
                          "AMD OpenCL">>
                        \o (IF hd["Graphics: AMD Legacy GCN"] = TRUE
                            THEN <<"AMD Legacy Vega Extended">> ELSE <<>>)
                   ELSE <<>>
      [] i = 14 -> IF hd["Brightness: Legacy Backlight Control"] = TRUE
                   THEN <<"Legacy Backlight Control">> ELSE <<>>
      [] i = 15 -> IF hd["Audio: Legacy Realtek"] = TRUE
                   THEN IF mdl \in {"iMac7,1", "iMac8,1"}
                        THEN <<"Legacy Realtek">> ELSE <<"Legacy Non-GOP">>
                   ELSE <<>>
      [] i = 16 -> IF hd["Networking: Legacy Wireless"] = TRUE
                   THEN <<"Legacy Wireless", "Legacy Wireless Extended">> ELSE <<>>
      [] i = 17 -> IF hd["Miscellaneous: Legacy GMUX"] = TRUE
                   THEN <<"Legacy GMUX">> ELSE <<>>
      [] i = 18 -> IF hd["Miscellaneous: Legacy Keyboard Backlight"] = TRUE
                   THEN <<"Legacy Keyboard Backlight">> ELSE <<>>
      [] OTHER -> IF hd["Miscellaneous: Legacy USB 1.1"] = TRUE
                  THEN <<"Legacy USB 1.1">> ELSE <<>>

InSeq(x, sq) == \E k \in DOMAIN sq : sq[k] = x

\* del(required_patches[name]) on the keys of the dictionary, in insertion order.
del_key(keys, name) == SelectSeq(keys, LAMBDA k : k # name)

\* update that moves a key the dictionary holds to the end.
update_moving(keys, name) == Append(SelectSeq(keys, LAMBDA k : k # name), name)

\* required_patches.update({name: ...}): a key the dictionary holds keeps its
\* place, a new key goes last.
update(keys, name) == IF InSeq(name, keys) THEN keys ELSE Append(keys, name)

\* update_all that passes the names of a block to update last name first.
RECURSIVE update_all_backwards(_, _, _)
update_all_backwards(keys, names, k) ==
    IF k > Len(names) THEN keys
    ELSE update(update_all_backwards(keys, names, k + 1), names[k])

RECURSIVE update_all(_, _, _)
update_all(keys, names, k) ==
    IF k > Len(names) THEN keys
    ELSE update_all(update(keys, names[k]), names, k + 1)

\* kepler_mixed_gpu that takes an Ivy Bridge GPU for a Haswell one.
kepler_mixed_gpu_or_ivy(keys, i, hd, comp) ==
    IF /\ i = 9
       /\ hd["Graphics: Nvidia Kepler"] = TRUE
       /\ \E g \in DOMAIN comp.gpus : comp.gpus[g].arch \in {"Haswell", "Ivy_Bridge"}
    THEN del_key(keys, "Catalina GVA")
    ELSE keys

\* Lines 639-644: a Haswell GPU in the probed list drops "Catalina GVA".
kepler_mixed_gpu(keys, i, hd, comp) ==
    IF /\ i = 9
       /\ hd["Graphics: Nvidia Kepler"] = TRUE
       /\ \E g \in DOMAIN comp.gpus : comp.gpus[g].arch = "Haswell"
    THEN del_key(keys, "Catalina GVA")
    ELSE keys

\* The keys of required_patches after the blocks i..19.
RECURSIVE collect_patches(_, _, _, _, _)
collect_patches(keys, i, hd, mdl, comp) ==
    IF i \notin FlagBlocks THEN keys
    ELSE collect_patches(
             kepler_mixed_gpu(update_all(keys, block_names(i, hd, mdl, comp), 1),
                              i, hd, comp),
             i + 1, hd, mdl, comp)

\* ts2_without_x3000 that asks for the opt-in only, not for the OS.
ts2_without_x3000_any_os(c, hd) ==
    /\ hd["Graphics: AMD TeraScale 2"] = TRUE
    /\ c.allow_ts2_accel = FALSE

\* Line 656: AMDRadeonX3000.kext is deleted from the entry of the catalog object;
\* c is self.constants.
ts2_without_x3000(c, hd) ==
    /\ hd["Graphics: AMD TeraScale 2"] = TRUE
    /\ \/ c.allow_ts2_accel = FALSE
       \/ c.detected_os \notin c.legacy_accel_support

patchset_after_call(c, cat, hd) ==
    IF ts2_without_x3000(c, hd)
    THEN [cat EXCEPT !["AMD TeraScale 2"].install = @ \ {"AMDRadeonX3000.kext"}]
    ELSE cat

\* float(f"{major}.{minor}") in thousandths: the minor is the decimal fraction
\* its digits spell, so 22.10 is 22.1 and 22.9 is 22.9.
Digits(n) == IF n < 10 THEN 1 ELSE IF n < 100 THEN 2 ELSE 3
Pow10(n) == IF n = 0 THEN 1 ELSE IF n = 1 THEN 10 ELSE IF n = 2 THEN 100 ELSE 1000
os_float(major, minor) == major * 1000 + minor * Pow10(3 - Digits(minor))

\* Line 704: the entry is deleted.
outside_os_support(patch) ==
    LET host_os_float == os_float(constants.detected_os, constants.detected_os_minor)
        patch_os_min_float == os_float(patch.min[1], patch.min[2])
        patch_os_max_float == os_float(patch.max[1], patch.max[2])
    IN  host_os_float < patch_os_min_float \/ host_os_float > patch_os_max_float

\* prioritize_monterey_gva that deletes "Monterey GVA" and keeps "Catalina GVA".
prioritize_catalina_gva(keys) ==
    IF InSeq("Catalina GVA", keys) /\ InSeq("Monterey GVA", keys)
    THEN del_key(keys, "Monterey GVA")
    ELSE keys

\* Lines 697-699.
prioritize_monterey_gva(keys) ==
    IF InSeq("Catalina GVA", keys) /\ InSeq("Monterey GVA", keys)
    THEN del_key(keys, "Catalina GVA")
    ELSE keys

\* Lines 694-712: the keys that are left.
filter_patches(keys, cat) ==
    SelectSeq(prioritize_monterey_gva(keys), LAMBDA k : ~outside_os_support(cat[k]))

\* The dictionary returned: its keys in order, each with the entry of the catalog
\* object it refers to.
generate_patchset_for(c, hd, mdl, comp) ==
    LET cat == patchset_after_call(c, SystemPatchDictionary(catalog), hd)
        keys == filter_patches(collect_patches(<<>>, 1, hd, mdl, comp), cat)
    IN  [k \in DOMAIN keys |-> [name |-> keys[k], patch |-> cat[keys[k]]]]

generate_patchset_on(hd, mdl, comp) == generate_patchset_for(constants, hd, mdl, comp)

generate_patchset(hd) == generate_patchset_on(hd, model, computer)

\* all_hardware_patchset[...][name] with a name the catalog does not hold raises
\* KeyError; block_names are the names it is evaluated for.
key_error(hd, mdl, comp) ==
    \E i \in FlagBlocks :
        LET names == block_names(i, hd, mdl, comp)
        IN  \E k \in DOMAIN names : names[k] \notin EntryNames(catalog)

\* generate_patchset that leaves out the names the catalog does not hold.
generate_patchset_skipping(hd) ==
    LET cat == patchset_after_call(constants, SystemPatchDictionary(catalog), hd)
        held == SelectSeq(collect_patches(<<>>, 1, hd, model, computer),
                          LAMBDA k : k \in DOMAIN cat)
        keys == filter_patches(held, cat)
    IN  [raised |-> None,
         returned |-> [k \in DOMAIN keys |-> [name |-> keys[k], patch |-> cat[keys[k]]]]]

\* How a call of generate_patchset ends: the exception, or the dictionary returned.
generate_patchset_outcome(hd) ==
    IF key_error(hd, model, computer)
    THEN [raised |-> "KeyError", returned |-> <<>>]
    ELSE [raised |-> None, returned |-> generate_patchset(hd)]

\* generate_patchset(hardware_details) with the dictionary detect_patch_set returned.
GeneratePatchset ==
    /\ calls > 0
    /\ \E outcome \in {generate_patchset_outcome(root_patch_dict)} :
          /\ raised' = outcome.raised
          /\ IF outcome.raised = None
             THEN /\ required_patches' = outcome.returned
                  /\ resolved' = TRUE
             ELSE UNCHANGED <<required_patches, resolved>>
    /\ UNCHANGED <<facts, det, csr_values, root_patch_dict,
                   net_entry, calls>>
    /\ UNCHANGED <<boot_vars, download_vars>>

Next == DetectPatchSet \/ GeneratePatchset

(***************************************************************************)
(* The machines of the model.                                              *)
(***************************************************************************)
EnabledGpus(archs) == {Gpu(a, "0x30000") : a \in archs}

Constants(oses, minors, builds, force, accel, ts2) ==
    [detected_os : oses, detected_os_minor : minors, detected_os_build : builds,
     force_nv_web : force, legacy_accel_support : accel, allow_ts2_accel : ts2,
     host_is_hackintosh : {FALSE}]

\* The model identifier with the USB controllers and sensors the machine has.
Machines ==
    {[model |-> "iMac9,1", usb_controllers |-> {"UHCI", "EHCI"},
      ambient_light_sensor |-> FALSE, igpu |-> FALSE, dgpu |-> "0x30000"],
     [model |-> "iMac7,1", usb_controllers |-> {"UHCI", "EHCI"},
      ambient_light_sensor |-> FALSE, igpu |-> FALSE, dgpu |-> "0x30000"],
     [model |-> "MacBookPro8,2", usb_controllers |-> {"EHCI"},
      ambient_light_sensor |-> TRUE, igpu |-> TRUE, dgpu |-> "0xFFFFFFFF"],
     [model |-> "MacBookPro13,3", usb_controllers |-> {"XHCI"},
      ambient_light_sensor |-> TRUE, igpu |-> TRUE, dgpu |-> "0x30000"],
     [model |-> "MacPro5,1", usb_controllers |-> {"UHCI", "EHCI", "XHCI"},
      ambient_light_sensor |-> FALSE, igpu |-> FALSE, dgpu |-> "0x30000"]}

Computer(m, gpus, wifi, rosetta, leafs) ==
    [gpus |-> gpus, rosetta_active |-> rosetta, cpu_leafs |-> leafs,
     ambient_light_sensor |-> m.ambient_light_sensor, wifi |-> wifi,
     usb_controllers |-> m.usb_controllers, igpu |-> m.igpu, dgpu |-> m.dgpu]

\* What the Nvidia Web Driver checks read.
NvSetups ==
    {[boot_args |-> b, kexts_loaded |-> k] :
        b \in SUBSET {"nvda_drv_vrl=", "ngfxgl=", "ngfxcompat="},
        k \in {{"WhateverGreen", "AppleALC"}, {}}}

NvReady == [boot_args |-> {"nvda_drv_vrl=", "ngfxgl=", "ngfxcompat="},
            kexts_loaded |-> {"WhateverGreen", "AppleALC"}]

\* What the KDK fallback reads: network, KDK, the plist of the root volume.
KdkSetups ==
    [has_network : BOOLEAN, kdk_present : BOOLEAN,
     oclp_plist : {{}, {{"Legacy Wireless"}}}]

KdkReady == [has_network |-> TRUE, kdk_present |-> TRUE, oclp_plist |-> {}]

KdkUnreachable == [has_network |-> FALSE, kdk_present |-> FALSE, oclp_plist |-> {}]

\* What verify_patch_allowed reads.
SecuritySetups ==
    [sip_status : {{}, {0, 1, 11}, {0, 1, 9, 10, 11}}, secure_boot : BOOLEAN,
     fv_status : {"FileVault is Off", "FileVault is On"}, allow_fv : {FALSE},
     dosdude_kexts : BOOLEAN, amfi : {"on", "library validation off", "off"}]

SecurityOff ==
    [sip_status |-> {0, 1, 9, 10, 11}, secure_boot |-> FALSE,
     fv_status |-> "FileVault is Off", allow_fv |-> FALSE, dosdude_kexts |-> FALSE,
     amfi |-> "off"]

Host(k, sec, nv) ==
    [has_network |-> k.has_network, kdk_present |-> k.kdk_present,
     oclp_plist |-> k.oclp_plist, sip_status |-> sec.sip_status,
     secure_boot |-> sec.secure_boot, fv_status |-> sec.fv_status,
     allow_fv |-> sec.allow_fv, dosdude_kexts |-> sec.dosdude_kexts,
     amfi |-> sec.amfi, boot_args |-> nv.boot_args, nvda_drv |-> FALSE,
     kexts_loaded |-> nv.kexts_loaded]

Editions(los, his) == [min_minor : los, max_minor : his, absent : {{}}]

\* No build_boot object yet: no partition probed, an empty BlessOverride.
NoBuild ==
    /\ efi_partitions = <<>>
    /\ gui_mode = TRUE
    /\ bless_override = <<>>
    /\ build_returned = NotCalled
    /\ build_calls = 0

\* utilities as imported: no sleep inhibitor, nothing downloaded.
NoDownload ==
    /\ sleep_process = {}
    /\ caffeinate = {}
    /\ spawned = 0
    /\ atexit_registered = FALSE
    /\ location = {}
    /\ download_returned = NotCalled
    /\ download_calls = 0

\* The state after construction, before any call.
Constructed ==
    /\ NoBuild
    /\ NoDownload
    /\ det = FreshDetector
    /\ csr_values = {}
    /\ root_patch_dict = <<>>
    /\ net_entry = networking_inputs(FreshDetector)
    /\ required_patches = <<>>
    /\ resolved = FALSE
    /\ raised = None
    /\ calls = 0

(***************************************************************************)
(* Spec: the gating of patching. Few graphics units, every answer of the   *)
(* security, KDK and Web Driver probes.                                    *)
(***************************************************************************)
GatingArchs == {"Maxwell", "Kepler", "Sandy_Bridge", "Kaby_Lake"}

\* Every answer of the security probes; of the KDK probes; of the Web Driver probes.
GatingHosts ==
    {Host(KdkReady, sec, NvReady) : sec \in {x \in SecuritySetups : x.amfi = "off"}}
    \cup {Host(KdkReady, sec, NvReady) :
              sec \in {x \in SecuritySetups :
                          ~x.secure_boot /\ ~x.dosdude_kexts
                          /\ x.fv_status = "FileVault is Off"}}
    \cup {Host(k, sec, NvReady) :
              k \in KdkSetups, sec \in {SecurityOff, [SecurityOff EXCEPT !.sip_status = {}]}}
    \cup {Host(KdkReady, SecurityOff, nv) : nv \in NvSetups}

\* Units firmware has disabled: class code 0xFFFFFFFF or none, with the
\* properties disable-metal and force-compat a unit can carry.
DisabledGpus(archs) ==
    {[Gpu(a, c) EXCEPT !.disable_metal = p[1], !.force_compatible = p[2]] :
        a \in archs, c \in ClassCodes \ {"0x30000"},
        p \in {<<FALSE, FALSE>>, <<TRUE, FALSE>>, <<FALSE, TRUE>>}}

InsertAt(s, i, e) ==
    [k \in 1..(Len(s) + 1) |-> IF k < i THEN s[k] ELSE IF k = i THEN e ELSE s[k - 1]]

\* GPU lists with one disabled unit among the enabled ones.
WithDisabledGpu ==
    UNION {{InsertAt(g, i, x) :
               i \in 1..(Len(g) + 1), x \in DisabledGpus({"Kepler", "Sandy_Bridge"})} :
           g \in SeqsUpTo(EnabledGpus({"Maxwell", "Sandy_Bridge"}), MaxGpus - 1)}

GatingConstants ==
    Constants({monterey, ventura}, {1}, {"21G72"}, {FALSE},
              {{big_sur, monterey, ventura}}, {FALSE})

\* A detected OS no release has: major 0, minor 0, no build.
MalformedOsConstants ==
    Constants({0}, {0}, {""}, {FALSE}, {{big_sur, monterey, ventura}}, {FALSE})

Init ==
    /\ \/ /\ \E m \in {mm \in Machines : mm.model \in {"iMac9,1", "MacBookPro13,3"}} :
              /\ model = m.model
              /\ \E g \in SeqsUpTo(EnabledGpus(GatingArchs), MaxGpus),
                    w \in {"AirPortBrcm4331", "AirPortBrcmNIC"} :
                   computer = Computer(m, g, w, FALSE, {})
          /\ host \in GatingHosts
          /\ constants \in GatingConstants
       \/ /\ \E m \in {mm \in Machines : mm.model = "MacBookPro13,3"} :
              /\ model = m.model
              /\ \E g \in WithDisabledGpu :
                   computer = Computer(m, g, "AirPortBrcmNIC", FALSE, {})
          /\ \E nv \in {x \in NvSetups : x.kexts_loaded # {}} :
                host = Host(KdkReady, SecurityOff, nv)
          /\ constants \in GatingConstants
       \/ /\ \E m \in {mm \in Machines : mm.model \in {"iMac9,1", "MacBookPro8,2"}} :
              /\ model = m.model
              /\ \E g \in SeqsUpTo(EnabledGpus({"Kepler", "Sandy_Bridge"}), 1),
                    w \in {"AirPortBrcm4331", "AirPortBrcmNIC"} :
                   computer = Computer(m, g, w, FALSE, {})
          /\ host \in {Host(k, SecurityOff, NvReady) : k \in {KdkReady, KdkUnreachable}}
          /\ constants \in MalformedOsConstants
    /\ catalog \in Editions({0}, {99})
    /\ Constructed

Spec == Init /\ [][Next]_vars

(***************************************************************************)
(* Properties of the dictionary detect_patch_set returns.                  *)
(***************************************************************************)
SipKeys ==
    {"Validation: SIP is enabled (Required: " \o h \o " or higher)" :
        h \in {"0xA03", "0x803", "0x802", "0x603"}}
AmfiKeys == {"Validation: AMFI is enabled", "Validation: Library Validation is enabled"}
WebDriverKeys ==
    {"Validation: WhateverGreen.kext missing", "Validation: Force OpenGL property missing",
     "Validation: Force compat property missing",
     "Validation: nvda_drv(_vrl) variable missing"}
GeneralKeys ==
    {"Validation: SecureBootModel is enabled", "Validation: FileVault is enabled",
     "Validation: System is dosdude1 patched"}
BlockingKeys ==
    SipKeys \cup AmfiKeys \cup WebDriverKeys \cup GeneralKeys
    \cup {"Validation: Network Connection Required"}

CapabilityKeys ==
    {"Graphics: Nvidia Tesla", "Graphics: Nvidia Kepler", "Graphics: Nvidia Web Drivers",
     "Graphics: AMD TeraScale 1", "Graphics: AMD TeraScale 2", "Graphics: AMD Legacy GCN",
     "Graphics: AMD Legacy Polaris", "Graphics: AMD Legacy Vega",
     "Graphics: Intel Ironlake", "Graphics: Intel Sandy Bridge",
     "Graphics: Intel Ivy Bridge", "Graphics: Intel Haswell", "Graphics: Intel Broadwell",
     "Graphics: Intel Skylake", "Brightness: Legacy Backlight Control",
     "Audio: Legacy Realtek", "Networking: Legacy Wireless", "Miscellaneous: Legacy GMUX",
     "Miscellaneous: Legacy Keyboard Backlight", "Miscellaneous: Legacy USB 1.1"}

\* The one key of the dictionary among keys.
TheKey(keys) == CHOOSE k \in (DOMAIN root_patch_dict) \cap keys : TRUE

\* C1: in every dictionary detect_patch_set returns, "Validation: Patching
\* Possible" is true exactly when every blocking entry of that dictionary (SIP,
\* SecureBootModel, AMFI or Library Validation, FileVault, dosdude1, the four Web
\* Driver entries, Network Connection Required) is false.
C1_PatchingPossibleIffNoBlocker ==
    calls > 0 =>
        /\ Cardinality((DOMAIN root_patch_dict) \cap SipKeys) = 1
        /\ Cardinality((DOMAIN root_patch_dict) \cap AmfiKeys) = 1
        /\ (WebDriverKeys \cup GeneralKeys) \subseteq DOMAIN root_patch_dict
        /\ root_patch_dict["Validation: Patching Possible"] = TRUE
             <=> \A k \in (DOMAIN root_patch_dict) \cap BlockingKeys :
                    root_patch_dict[k] = FALSE

\* A dictionary that allows patching although Web Drivers and an AMFI exemption
\* are required.
C1_Witness ==
    /\ calls > 0
    /\ root_patch_dict["Validation: Patching Possible"] = TRUE
    /\ root_patch_dict["Graphics: Nvidia Web Drivers"] = TRUE
    /\ root_patch_dict["Settings: Requires AMFI exemption"] = TRUE

\* C7: "Validation: Unpatching Possible" is true exactly when SIP is permissive,
\* that is when the booted csr-active-config has every bit check_sip requires and
\* the dictionary's "SIP is enabled" entry is false, whatever the other entries are.
C7_UnpatchingIffSipPermissive ==
    calls > 0 =>
        /\ root_patch_dict["Validation: Unpatching Possible"] = TRUE
             <=> check_sip(det).sip \subseteq host.sip_status
        /\ root_patch_dict["Validation: Unpatching Possible"]
             = ~root_patch_dict[TheKey(SipKeys)]

\* Unpatching is possible while patching is blocked by another check.
C7_Witness ==
    /\ calls > 0
    /\ root_patch_dict["Validation: Unpatching Possible"] = TRUE
    /\ root_patch_dict["Validation: Patching Possible"] = FALSE
    /\ root_patch_dict["Validation: FileVault is enabled"] = TRUE

\* C6: a detect_patch_set call after the first on the same detector, the machine
\* unchanged, returns the dictionary the call before it returned (calls counts
\* the detect_patch_set calls, so the step is such a call).
C6_DetectionIdempotent ==
    [][calls >= 1 /\ calls' = calls + 1 => root_patch_dict' = root_patch_dict]_vars

\* The second call has returned, and it demoted the root KC requirement again.
C6_Witness ==
    /\ calls = 2
    /\ net_entry.requires_root_kc = TRUE
    /\ det.requires_root_kc = FALSE
    /\ det.legacy_uhci_ohci = TRUE

(***************************************************************************)
(* The KDK-less fallback of check_networking_support.                      *)
(***************************************************************************)
\* check_networking_support was entered on Ventura with the root KC required,
\* legacy wireless, the KDK missing and no network.
FallbackCase ==
    /\ calls > 0
    /\ constants.detected_os = ventura
    /\ net_entry.requires_root_kc = TRUE
    /\ net_entry.legacy_wifi = TRUE
    /\ net_entry.missing_kdk = TRUE
    /\ net_entry.has_network = FALSE

\* C8 as claimed: with a record of an earlier Legacy Wireless patch, the
\* requirement is demoted and legacy wireless stays.
C8_Claimed ==
    FallbackCase /\ wireless_already_patched =>
        /\ det.requires_root_kc = FALSE
        /\ root_patch_dict["Settings: Supports Auxiliary Cache"] = TRUE
        /\ root_patch_dict["Networking: Legacy Wireless"] = TRUE

\* C8 as amended: with a record of an earlier Legacy Wireless patch nothing is
\* demoted: the root KC stays required, legacy wireless stays, the KDK stays
\* missing, and the dictionary requires a network connection and blocks patching.
C8_RecordKeepsRequirement ==
    FallbackCase /\ wireless_already_patched =>
        /\ det.requires_root_kc = TRUE
        /\ root_patch_dict["Settings: Supports Auxiliary Cache"] = FALSE
        /\ root_patch_dict["Networking: Legacy Wireless"] = TRUE
        /\ root_patch_dict["Settings: Kernel Debug Kit missing"] = TRUE
        /\ root_patch_dict["Validation: Network Connection Required"] = TRUE
        /\ root_patch_dict["Validation: Patching Possible"] = FALSE

C8_Witness ==
    /\ FallbackCase
    /\ wireless_already_patched
    /\ root_patch_dict["Graphics: Intel Sandy Bridge"] = TRUE

\* C9 as claimed: without such a record nothing is demoted, a network connection
\* is required and patching is blocked.
C9_Claimed ==
    FallbackCase /\ ~wireless_already_patched =>
        /\ det.requires_root_kc = TRUE
        /\ root_patch_dict["Validation: Network Connection Required"] = TRUE
        /\ root_patch_dict["Validation: Patching Possible"] = FALSE

\* C9 as amended: without such a record (a first run) the requirement is demoted:
\* the root KC is no longer required, the KDK no longer counts as missing, legacy
\* wireless stays, and the dictionary does not require a network connection.
C9_FirstRunDemotes ==
    FallbackCase /\ ~wireless_already_patched =>
        /\ det.requires_root_kc = FALSE
        /\ root_patch_dict["Settings: Supports Auxiliary Cache"] = TRUE
        /\ root_patch_dict["Networking: Legacy Wireless"] = TRUE
        /\ root_patch_dict["Settings: Kernel Debug Kit missing"] = FALSE
        /\ root_patch_dict["Validation: Network Connection Required"] = FALSE

C9_Witness ==
    /\ FallbackCase
    /\ ~wireless_already_patched
    /\ root_patch_dict["Validation: Patching Possible"] = TRUE

(***************************************************************************)
(* A machine that needs no patch.                                          *)
(***************************************************************************)
\* No unit of the machine is one the detector has a patch for.
NoLegacyUnits ==
    /\ \A i \in DOMAIN computer.gpus : computer.gpus[i].arch \in {"Navi", "Kaby_Lake"}
    /\ computer.wifi \notin LegacyWifiChipsets
    /\ model \notin LegacyBrightness \cup LegacyAudio
                    \cup {"iMac7,1", "iMac8,1", "MacBookPro8,2", "MacBookPro8,3"}
    /\ "XHCI" \in computer.usb_controllers

NoCapability == \A k \in CapabilityKeys : root_patch_dict[k] = FALSE

\* C10 as claimed: no flag, an empty patch set, and patching possible.
C10_Claimed ==
    NoLegacyUnits /\ calls > 0 /\ resolved =>
        /\ NoCapability
        /\ required_patches = <<>>
        /\ root_patch_dict["Validation: Patching Possible"] = TRUE

\* C10 as amended: no flag and an empty patch set; patching is possible exactly
\* when none of SIP, SecureBootModel, FileVault and dosdude1 blocks it.
C10_NothingToPatch ==
    NoLegacyUnits /\ calls > 0 =>
        /\ NoCapability
        /\ resolved => required_patches = <<>>
        /\ root_patch_dict["Validation: Patching Possible"] = TRUE
             <=> \A k \in (DOMAIN root_patch_dict) \cap (SipKeys \cup GeneralKeys) :
                    root_patch_dict[k] = FALSE

C10_Witness ==
    /\ NoLegacyUnits
    /\ Len(computer.gpus) > 0
    /\ resolved
    /\ required_patches = <<>>
    /\ root_patch_dict["Validation: Patching Possible"] = TRUE

(***************************************************************************)
(* SpecGpu: the graphics flags. Every pair of graphics units, one          *)
(* architecture for each branch of the loop of detect_gpus, Mojave to      *)
(* Ventura. A fact only one branch reads varies where that branch is taken.*)
(***************************************************************************)
GpuArchs == Archs \ {"Fermi", "Pascal", "Legacy_GCN_8000", "Legacy_GCN_9000", "Navi"}

HasArch(gpus, archs) == \E i \in DOMAIN gpus : gpus[i].arch \in archs

InitGpu ==
    /\ \E g \in SeqsUpTo(EnabledGpus(GpuArchs), MaxGpus), os \in mojave..ventura :
         \E m \in {mm \in Machines :
                      mm.model \in IF HasArch(g, {"Polaris"}) /\ os > monterey
                                   THEN {"MacBookPro8,2", "MacBookPro13,3"}
                                   ELSE {"MacBookPro8,2"}},
            leafs \in IF HasArch(g, {"Polaris", "Vega"}) /\ os > monterey
                      THEN {{}, {"AVX2"}} ELSE {{}},
            rosetta \in IF HasArch(g, {"Legacy_GCN_7000", "Polaris"}) /\ os > monterey
                        THEN BOOLEAN ELSE {FALSE},
            force \in IF HasArch(g, {"Tesla", "Kepler"}) THEN BOOLEAN ELSE {FALSE},
            release \in IF HasArch(g, {"Kepler"}) /\ os = monterey
                        THEN {<<0, "21A559">>, <<1, "21A5506j">>, <<1, "21G72">>}
                        ELSE {<<1, "21G72">>},
            k \in IF os = ventura THEN {KdkReady, KdkUnreachable} ELSE {KdkReady} :
              /\ model = m.model
              /\ computer = Computer(m, g,
                                     IF k = KdkReady THEN "AirPortBrcmNIC"
                                                     ELSE "AirPortBrcm4331",
                                     rosetta, leafs)
              /\ constants \in Constants({os}, {release[1]}, {release[2]}, {force},
                                         {{big_sur, monterey, ventura}}, {FALSE})
              /\ host = Host(k, SecurityOff, NvReady)
    /\ catalog \in Editions({0}, {99})
    /\ Constructed

SpecGpu == InitGpu /\ [][Next]_vars

MetalKeys ==
    {"Graphics: Nvidia Kepler", "Graphics: Intel Ivy Bridge", "Graphics: Intel Haswell",
     "Graphics: Intel Broadwell", "Graphics: Intel Skylake", "Graphics: AMD Legacy GCN",
     "Graphics: AMD Legacy Polaris", "Graphics: AMD Legacy Vega"}

NonMetalKeys ==
    {"Graphics: Nvidia Tesla", "Graphics: Nvidia Web Drivers",
     "Graphics: AMD TeraScale 1", "Graphics: AMD TeraScale 2",
     "Graphics: Intel Ironlake", "Graphics: Intel Sandy Bridge"}

\* C2: no dictionary detect_patch_set returns has a Metal graphics flag true
\* together with a non-Metal graphics flag or with Legacy Keyboard Backlight.
C2_MetalExcludesNonMetal ==
    calls > 0 =>
        ~ /\ \E k \in MetalKeys : root_patch_dict[k] = TRUE
          /\ \E k \in NonMetalKeys \cup {"Miscellaneous: Legacy Keyboard Backlight"} :
                root_patch_dict[k] = TRUE

\* A Metal unit beside a Tesla unit on a MacBook with an ambient light sensor:
\* the loop raised Tesla and the keyboard backlight, and the Metal flag is what
\* the dictionary reports.
C2_Witness ==
    /\ calls > 0
    /\ constants.detected_os = ventura
    /\ HasArch(computer.gpus, {"Tesla"})
    /\ check_legacy_keyboard_backlight = TRUE
    /\ root_patch_dict["Graphics: Intel Haswell"] = TRUE
    /\ root_patch_dict["Graphics: Nvidia Tesla"] = FALSE

(***************************************************************************)
(* SpecResolve: the patch set. Units that share entries of the catalog,    *)
(* minors below and from 10 on, catalogs whose ranges start or end inside a  *)
(* release.                                                                *)
(***************************************************************************)
ResolveArchs ==
    {"Sandy_Bridge", "Ivy_Bridge", "Haswell", "Kepler", "TeraScale_2",
     "Legacy_GCN_7000", "Vega"}

InitResolve ==
    /\ \E g \in SeqsUpTo(EnabledGpus(ResolveArchs), MaxGpus), os \in {monterey, ventura} :
         \E m \in {mm \in Machines : mm.model \in {"iMac7,1", "iMac9,1", "MacBookPro8,2"}},
            leafs \in IF HasArch(g, {"Legacy_GCN_7000", "Vega"}) /\ os > monterey
                      THEN {{}, {"AVX2"}} ELSE {{}},
            ts2 \in IF HasArch(g, {"TeraScale_2"}) THEN BOOLEAN ELSE {FALSE},
            minor \in {1, 10} :
              \E accel \in IF HasArch(g, {"TeraScale_2"}) /\ os = ventura /\ ts2
                            THEN {{big_sur, monterey, ventura}, {big_sur, monterey}}
                            ELSE {{big_sur, monterey, ventura}} :
                 /\ model = m.model
                 /\ computer = Computer(m, g,
                                        IF m.model = "MacBookPro8,2" THEN "AirPortBrcmNIC"
                                                                     ELSE "AirPortBrcm4331",
                                        FALSE, leafs)
                 /\ constants \in Constants({os}, {minor}, {"21G72"},
                                            {FALSE}, {accel}, {ts2})
                 /\ catalog \in Editions({0}, {9, 99}) \cup Editions({2}, {99})
                                 \cup IF os = ventura /\ minor = 1
                                      THEN {[min_minor |-> 0, max_minor |-> 99,
                                             absent |-> {"Monterey OpenCL"}]}
                                      ELSE {}
    /\ host = Host(KdkReady, SecurityOff, NvReady)
    /\ Constructed

SpecResolve == InitResolve /\ [][Next]_vars

\* The names of a patch set, in order.
NamesOf(patchset) == [k \in DOMAIN patchset |-> patchset[k].name]

\* (major, minor) pairs, major first.
PairLeq(a, b) == a[1] < b[1] \/ (a[1] = b[1] /\ a[2] <= b[2])

HostOs == <<constants.detected_os, constants.detected_os_minor>>

\* C3: every entry of the patch set generate_patchset returns has
\* minimum OS <= detected OS <= maximum OS as (major, minor) pairs, also when a
\* minor is 10 or greater.
C3_Claimed ==
    resolved =>
        \A k \in DOMAIN required_patches :
            /\ PairLeq(required_patches[k].patch.min, HostOs)
            /\ PairLeq(HostOs, required_patches[k].patch.max)

\* Other machines generate_patchset may run on with the same hardware_details.
AltMachines ==
    [model : {"iMac7,1", "iMac9,1"},
     gpus : SeqsUpTo(EnabledGpus({"Haswell", "Ivy_Bridge"}), 1),
     cpu_leafs : {{}, {"AVX2"}}]

AltComputer(a) == [computer EXCEPT !.gpus = a.gpus, !.cpu_leafs = a.cpu_leafs]

\* C4 as claimed: with the same hardware_details and detected OS the names and
\* their order are the same whatever the GPU list, the CPU leafs and the model.
C4_Claimed ==
    resolved =>
        \A a \in AltMachines :
            NamesOf(generate_patchset_on(root_patch_dict, a.model, AltComputer(a)))
                = NamesOf(required_patches)

\* What generate_patchset reads of the machine beside hardware_details.
SameResolverFacts(a) ==
    /\ HasArch(a.gpus, {"Haswell"}) = HasArch(computer.gpus, {"Haswell"})
    /\ ("AVX2" \in a.cpu_leafs) = ("AVX2" \in computer.cpu_leafs)
    /\ (a.model \in {"iMac7,1", "iMac8,1"}) = (model \in {"iMac7,1", "iMac8,1"})

\* C4 as amended: with the same hardware_details and detected OS the names and
\* their order are the same on every machine that also agrees on whether a
\* Haswell GPU is in the GPU list, whether the CPU has AVX2, and whether the model
\* is iMac7,1 or iMac8,1.
C4_SameResolverFactsSameNames ==
    resolved =>
        \A a \in AltMachines :
            SameResolverFacts(a) =>
                NamesOf(generate_patchset_on(root_patch_dict, a.model, AltComputer(a)))
                    = NamesOf(required_patches)

\* A Kepler patch set with "Catalina GVA" in it, and a machine that agrees on
\* the three facts with another GPU list.
C4_Witness ==
    /\ resolved
    /\ root_patch_dict["Graphics: Nvidia Kepler"] = TRUE
    /\ InSeq("Catalina GVA", NamesOf(required_patches))
    /\ \E a \in AltMachines : SameResolverFacts(a) /\ a.gpus # computer.gpus

\* The names the blocks pass to update, in the order of the blocks.
RECURSIVE all_block_names(_, _)
all_block_names(i, hd) ==
    IF i \notin FlagBlocks THEN <<>>
    ELSE block_names(i, hd, model, computer) \o all_block_names(i + 1, hd)

FirstIndex(sq, x) == CHOOSE k \in DOMAIN sq : sq[k] = x /\ \A j \in 1..(k - 1) : sq[j] # x

\* C5: the patch set generate_patchset returns has no name twice, and its
\* names are in the order in which the blocks of the true flags first insert them.
C5_OnceAtFirstInsertion ==
    resolved =>
        LET names == NamesOf(required_patches)
            inserted == all_block_names(1, root_patch_dict)
        IN  /\ \A k \in DOMAIN names : InSeq(names[k], inserted)
            /\ LET first == [k \in DOMAIN names |-> FirstIndex(inserted, names[k])]
               IN  \A i, j \in DOMAIN names :
                       i < j => names[i] # names[j] /\ first[i] < first[j]

\* Sandy Bridge and TeraScale 2 both imply "Non-Metal Common": it is first, where
\* the Sandy Bridge block put it.
C5_Witness ==
    /\ resolved
    /\ root_patch_dict["Graphics: Intel Sandy Bridge"] = TRUE
    /\ root_patch_dict["Graphics: AMD TeraScale 2"] = TRUE
    /\ Len(required_patches) > 3
    /\ required_patches[1].name = "Non-Metal Common"

(***************************************************************************)
(* SIP as the gate of patching and unpatching.                             *)
(***************************************************************************)
\* The booted csr-active-config has every bit check_sip requires.
SipPermissive == check_sip(det).sip \subseteq host.sip_status

\* C11 as claimed: with SIP enabled both "Patching Possible" and "Unpatching
\* Possible" are false, and with SIP permissive both are true, whatever the
\* other gating inputs are.
C11_Claimed ==
    calls > 0 =>
        /\ ~SipPermissive =>
              /\ root_patch_dict["Validation: Patching Possible"] = FALSE
              /\ root_patch_dict["Validation: Unpatching Possible"] = FALSE
        /\ SipPermissive =>
              /\ root_patch_dict["Validation: Patching Possible"] = TRUE
              /\ root_patch_dict["Validation: Unpatching Possible"] = TRUE

\* C11 as amended: with SIP enabled both are false; with SIP permissive
\* "Unpatching Possible" is true, and "Patching Possible" is true exactly when
\* no other blocking entry of the dictionary is true.
C11_SipGatesBoth ==
    calls > 0 =>
        /\ ~SipPermissive =>
              /\ root_patch_dict["Validation: Patching Possible"] = FALSE
              /\ root_patch_dict["Validation: Unpatching Possible"] = FALSE
        /\ SipPermissive =>
              /\ root_patch_dict["Validation: Unpatching Possible"] = TRUE
              /\ root_patch_dict["Validation: Patching Possible"] = TRUE
                   <=> \A k \in (DOMAIN root_patch_dict) \cap (BlockingKeys \ SipKeys) :
                          root_patch_dict[k] = FALSE

\* SIP is enabled and nothing else blocks: both are false.
C11_Witness ==
    /\ calls > 0
    /\ ~SipPermissive
    /\ \A k \in (DOMAIN root_patch_dict) \cap (BlockingKeys \ SipKeys) :
           root_patch_dict[k] = FALSE
    /\ root_patch_dict["Validation: Patching Possible"] = FALSE
    /\ root_patch_dict["Validation: Unpatching Possible"] = FALSE

(***************************************************************************)
(* Metal and non-Metal units in one machine.                               *)
(***************************************************************************)
MetalArchs ==
    {"Kepler", "Ivy_Bridge", "Haswell", "Broadwell", "Skylake", "Legacy_GCN_7000",
     "Legacy_GCN_8000", "Legacy_GCN_9000", "Polaris", "Vega"}

NonMetalArchs == {"Tesla", "TeraScale_1", "TeraScale_2", "Iron_Lake", "Sandy_Bridge"}

EnabledArch(gpus, archs) ==
    \E i \in DOMAIN gpus :
        /\ gpus[i].arch \in archs
        /\ gpus[i].class_code # None /\ gpus[i].class_code # "0xFFFFFFFF"

\* C12: whenever the GPU list has an enabled Metal-capable unit and an enabled
\* non-Metal unit, every non-Metal graphics flag of the dictionary is false, on
\* every OS version.
C12_Claimed ==
    /\ calls > 0
    /\ EnabledArch(computer.gpus, MetalArchs)
    /\ EnabledArch(computer.gpus, NonMetalArchs)
    => \A k \in NonMetalKeys : root_patch_dict[k] = FALSE

\* C13: in every dictionary detect_patch_set returns, "Graphics: AMD Legacy GCN"
\* true means "Graphics: AMD Legacy Polaris" and "Graphics: AMD Legacy Vega" are
\* false, whatever the GPUs and their order.
C13_LegacyGcnExcludesSiblings ==
    calls > 0 /\ root_patch_dict["Graphics: AMD Legacy GCN"] = TRUE =>
        /\ root_patch_dict["Graphics: AMD Legacy Polaris"] = FALSE
        /\ root_patch_dict["Graphics: AMD Legacy Vega"] = FALSE

\* A Vega unit probed before a GCN unit on a CPU without AVX2: the loop raised
\* the Vega flag, and the dictionary reports GCN.
C13_Witness ==
    /\ calls > 0
    /\ Len(computer.gpus) = 2
    /\ computer.gpus[1].arch = "Vega"
    /\ computer.gpus[2].arch = "Legacy_GCN_7000"
    /\ "AVX2" \notin computer.cpu_leafs
    /\ detect_gpu(FreshDetector, computer.gpus[1]).legacy_vega = TRUE
    /\ root_patch_dict["Graphics: AMD Legacy GCN"] = TRUE

(***************************************************************************)
(* The root kernel collection requirement.                                 *)
(***************************************************************************)
\* The flags whose detection sets requires_root_kc.
RootKcKeys ==
    {"Graphics: Nvidia Tesla", "Graphics: Nvidia Web Drivers",
     "Graphics: AMD TeraScale 1", "Graphics: AMD TeraScale 2",
     "Graphics: AMD Legacy GCN", "Graphics: AMD Legacy Polaris",
     "Graphics: AMD Legacy Vega", "Graphics: Intel Ironlake",
     "Graphics: Intel Sandy Bridge", "Miscellaneous: Legacy USB 1.1"}

\* C14: in every dictionary detect_patch_set returns, a true flag whose
\* detection sets the root kernel collection requirement means requires_root_kc
\* is true and "Settings: Supports Auxiliary Cache" is false.
C14_Claimed ==
    calls > 0 /\ (\E k \in RootKcKeys : root_patch_dict[k] = TRUE) =>
        /\ det.requires_root_kc = TRUE
        /\ root_patch_dict["Settings: Supports Auxiliary Cache"] = FALSE
(***************************************************************************)
(* Units firmware has disabled.                                            *)
(***************************************************************************)
Enabled(gpu) == gpu.class_code # None /\ gpu.class_code # "0xFFFFFFFF"

\* The GPU list without the disabled units.
EnabledOnly(gpus) == SelectSeq(gpus, Enabled)

\* C15: the dictionary the first call of detect_patch_set returns equals the one
\* it returns for the same list of graphics units with the disabled units removed.
C15_Claimed ==
    calls = 1 =>
        root_patch_dict = detect_patch_set(EnabledOnly(computer.gpus), FreshDetector, {})

\* C15, what holds: a disabled unit leaves every entry alone but the two Web Driver
\* property entries and the verdict on patching.
C15_CapabilitiesUnchanged ==
    calls = 1 =>
        LET alone == detect_patch_set(EnabledOnly(computer.gpus), FreshDetector, {})
        IN  /\ DOMAIN root_patch_dict = DOMAIN alone
            /\ \A k \in DOMAIN alone :
                  k \notin {"Validation: Force OpenGL property missing",
                            "Validation: Force compat property missing",
                            "Validation: Patching Possible"}
                      => root_patch_dict[k] = alone[k]
(***************************************************************************)
(* "Catalina GVA" and "Monterey GVA".                                      *)
(***************************************************************************)
\* The blocks of the true flags name both.
BothGvaImplied ==
    LET implied == all_block_names(1, root_patch_dict)
    IN  InSeq("Catalina GVA", implied) /\ InSeq("Monterey GVA", implied)

\* C16: the patch set generate_patchset returns never holds both "Catalina GVA" and
\* "Monterey GVA", and when the true flags imply both it holds "Monterey GVA".
C16_Claimed ==
    resolved =>
        LET names == NamesOf(required_patches)
        IN  /\ ~(InSeq("Catalina GVA", names) /\ InSeq("Monterey GVA", names))
            /\ BothGvaImplied => InSeq("Monterey GVA", names)

\* C16 as amended: never both; when the true flags imply both, "Catalina GVA" is
\* not returned, and "Monterey GVA" is returned exactly when the version filter
\* finds the detected OS inside its range.
C16_MontereyGvaPreferred ==
    resolved =>
        LET names == NamesOf(required_patches)
        IN  /\ ~(InSeq("Catalina GVA", names) /\ InSeq("Monterey GVA", names))
            /\ BothGvaImplied =>
                  /\ ~InSeq("Catalina GVA", names)
                  /\ InSeq("Monterey GVA", names)
                        <=> ~outside_os_support(SystemPatchDictionary(catalog)["Monterey GVA"])

C16_Witness ==
    /\ resolved
    /\ BothGvaImplied
    /\ InSeq("Monterey GVA", NamesOf(required_patches))
    /\ InSeq("Intel Ivy Bridge", NamesOf(required_patches))
(***************************************************************************)
(* The TeraScale 2 block and AMDRadeonX3000.kext.                          *)
(***************************************************************************)
\* self.constants with the TeraScale 2 acceleration opted in on the detected OS.
Ts2OptedIn ==
    [constants EXCEPT !.allow_ts2_accel = TRUE,
                      !.legacy_accel_support = @ \cup {constants.detected_os}]

Ts2Entries(patchset) == {k \in DOMAIN patchset : patchset[k].name = "AMD TeraScale 2"}

\* C17: with "Graphics: AMD TeraScale 2" true and the opt-in false or the OS
\* outside legacy_accel_support, the patch set generate_patchset returns is the one
\* it returns with the opt-in enabled but for AMDRadeonX3000.kext, which the
\* "AMD TeraScale 2" entry no longer installs; with the opt-in true and the OS
\* inside the window the entry installs it.
C17_OnlyX3000Removed ==
    resolved /\ root_patch_dict["Graphics: AMD TeraScale 2"] = TRUE =>
        LET opted == generate_patchset_for(Ts2OptedIn, root_patch_dict, model, computer)
        IN  /\ NamesOf(required_patches) = NamesOf(opted)
            /\ Ts2Entries(required_patches) # {}
            /\ \A k \in DOMAIN opted :
                  /\ k \notin Ts2Entries(opted) => required_patches[k] = opted[k]
                  /\ k \in Ts2Entries(opted) =>
                        /\ "AMDRadeonX3000.kext" \in opted[k].patch.install
                        /\ required_patches[k].patch =
                              IF constants.allow_ts2_accel = FALSE
                                 \/ constants.detected_os \notin constants.legacy_accel_support
                              THEN [opted[k].patch EXCEPT
                                       !.install = @ \ {"AMDRadeonX3000.kext"}]
                              ELSE opted[k].patch

\* The opt-in is given but Ventura is outside the window: the entry is returned
\* without AMDRadeonX3000.kext.
C17_Witness ==
    /\ resolved
    /\ root_patch_dict["Graphics: AMD TeraScale 2"] = TRUE
    /\ constants.allow_ts2_accel = TRUE
    /\ constants.detected_os \notin constants.legacy_accel_support
    /\ \E k \in Ts2Entries(required_patches) :
          required_patches[k].patch.install = {"AMD6000Controller.kext", "AMDRadeonX4000.kext"}
(***************************************************************************)
(* A name the catalog does not hold.                                       *)
(***************************************************************************)
\* The blocks of the true flags name an entry the loaded catalog does not hold.
MissingEntryImplied ==
    /\ calls > 0
    /\ \E i \in FlagBlocks :
          LET names == block_names(i, root_patch_dict, model, computer)
          IN  \E k \in DOMAIN names : names[k] \notin EntryNames(catalog)

\* C18: when a true flag implies a name the loaded catalog does not hold, a call of
\* generate_patchset ends in an exception (KeyError) and returns no patch set.
C18_MissingEntryRaises ==
    [][MissingEntryImplied /\ calls' = calls =>
           /\ raised' = "KeyError"
           /\ required_patches' = required_patches
           /\ resolved' = resolved]_vars

C18_Witness ==
    /\ MissingEntryImplied
    /\ raised = "KeyError"
    /\ ~resolved
    /\ root_patch_dict["Graphics: Intel Ivy Bridge"] = TRUE
(***************************************************************************)
(* A malformed detected OS.                                                *)
(***************************************************************************)
MalformedOs == constants.detected_os = 0 /\ constants.detected_os_minor = 0

\* C19: with the detected OS (0, 0) detect_patch_set never returns a dictionary
\* whose capability flags are all false, and generate_patchset never returns an
\* empty patch set.
C19_Claimed ==
    MalformedOs =>
        /\ ~(calls > 0 /\ \A k \in CapabilityKeys : root_patch_dict[k] = FALSE)
        /\ ~(resolved /\ required_patches = <<>>)

\* What the calls do on (0, 0): they return, all capability flags false, no patch.
C19_Returns ==
    MalformedOs /\ calls > 0 =>
        /\ \A k \in CapabilityKeys : root_patch_dict[k] = FALSE
        /\ raised = None
        /\ resolved => required_patches = <<>>
(***************************************************************************)
(* The catalog object of a call.                                           *)
(***************************************************************************)
\* C20: after a call of generate_patchset every entry of the catalog object the
\* call built is what SystemPatchDictionary built; the entries the patch set
\* returned refers to are entries of that object.
C20_Claimed ==
    resolved =>
        \A k \in DOMAIN required_patches :
            required_patches[k].patch
                = SystemPatchDictionary(catalog)[required_patches[k].name]
(***************************************************************************)
(* The OS a graphics flag is raised on.                                    *)
(***************************************************************************)
Flag(key) == root_patch_dict[key] = TRUE

\* C21: a graphics flag of the dictionary detect_patch_set returns is true only on
\* an OS newer than the last release with native support: Tesla, TeraScale 1/2,
\* Ironlake and Sandy Bridge after Catalina; Web Drivers after Mojave; Kepler and
\* Ivy Bridge after Big Sur (Kepler on Monterey only with minor > 0 and a build
\* other than 21A5506j); Legacy GCN/Polaris/Vega, Haswell, Broadwell and Skylake
\* after Monterey.
C21_FlagsOnlyOnNewerOs ==
    calls > 0 =>
        /\ \A k \in {"Graphics: Nvidia Tesla", "Graphics: AMD TeraScale 1",
                      "Graphics: AMD TeraScale 2", "Graphics: Intel Ironlake",
                      "Graphics: Intel Sandy Bridge"} :
              Flag(k) => constants.detected_os > catalina
        /\ Flag("Graphics: Nvidia Web Drivers") => constants.detected_os > mojave
        /\ Flag("Graphics: Intel Ivy Bridge") => constants.detected_os > big_sur
        /\ Flag("Graphics: Nvidia Kepler") =>
              /\ constants.detected_os > big_sur
              /\ constants.detected_os = monterey =>
                    /\ constants.detected_os_minor > 0
                    /\ constants.detected_os_build # "21A5506j"
        /\ \A k \in {"Graphics: AMD Legacy GCN", "Graphics: AMD Legacy Polaris",
                      "Graphics: AMD Legacy Vega", "Graphics: Intel Haswell",
                      "Graphics: Intel Broadwell", "Graphics: Intel Skylake"} :
              Flag(k) => constants.detected_os > monterey

\* Kepler on a Monterey release build, beside a unit whose flag waits for Ventura.
C21_Witness ==
    /\ calls > 0
    /\ constants.detected_os = monterey
    /\ Flag("Graphics: Nvidia Kepler")
    /\ HasArch(computer.gpus, {"Haswell"})
    /\ ~Flag("Graphics: Intel Haswell")
(***************************************************************************)
(* The order of the shared entries and the driver entry of a flag.         *)
(***************************************************************************)
GraphicsBlocks == 1..13

\* The entry of the family a graphics block is for (lines 590-676).
DriverEntry(i, hd) ==
    CASE i = 1 -> "Intel Ironlake"
      [] i = 2 -> "Intel Sandy Bridge"
      [] i = 3 -> "Intel Ivy Bridge"
      [] i = 4 -> "Intel Haswell"
      [] i = 5 -> "Intel Broadwell"
      [] i = 6 -> "Intel Skylake"
      [] i = 7 -> "Nvidia Tesla"
      [] i = 8 -> "Nvidia Web Drivers"
      [] i = 9 -> "Nvidia Kepler"
      [] i = 10 -> "AMD TeraScale 1"
      [] i = 11 -> "AMD TeraScale 2"
      [] i = 12 -> IF hd["Graphics: AMD Legacy GCN"] = TRUE
                   THEN "AMD Legacy GCN" ELSE "AMD Legacy Polaris"
      [] OTHER -> "AMD Legacy Vega"

\* The entries more than one graphics block names.
SharedEntries ==
    {"Non-Metal Common", "Non-Metal IOAccelerator Common", "WebKit Monterey Common",
     "Metal 3802 Common", "Catalina GVA", "Monterey GVA", "Monterey OpenCL",
     "Big Sur OpenCL", "Revert Metal Downgrade", "AMD TeraScale Common", "AMD OpenCL"}

\* In names the driver entry of block i comes after every entry of shared that the
\* block names and names holds.
DriverAfter(names, shared) ==
    \A i \in GraphicsBlocks :
        LET block == block_names(i, root_patch_dict, model, computer)
            driver == DriverEntry(i, root_patch_dict)
        IN  block # <<>> /\ InSeq(driver, names) =>
                \A k \in DOMAIN block :
                    block[k] \in shared /\ InSeq(block[k], names) =>
                        FirstIndex(names, block[k]) < FirstIndex(names, driver)

\* C22: in the patch set generate_patchset returns the driver entry of a true
\* graphics flag comes after every shared entry the flag implies that is returned.
C22_Claimed == resolved => DriverAfter(NamesOf(required_patches), SharedEntries)

\* C22 as amended: so it is for every shared entry but "AMD OpenCL", which the
\* Legacy GCN/Polaris and Vega blocks insert after their driver entry: when it is
\* returned, the driver entry of the first of these blocks precedes it.
C22_DriverAfterSharedButOpenCl ==
    resolved =>
        LET names == NamesOf(required_patches)
        IN  /\ DriverAfter(names, SharedEntries \ {"AMD OpenCL"})
            /\ InSeq("AMD OpenCL", names) =>
                  \E d \in {"AMD Legacy GCN", "AMD Legacy Polaris", "AMD Legacy Vega"} :
                      /\ InSeq(d, names)
                      /\ FirstIndex(names, d) < FirstIndex(names, "AMD OpenCL")

\* Two true flags share "Non-Metal Common"; the driver entry of the second is returned.
C22_Witness ==
    /\ resolved
    /\ root_patch_dict["Graphics: Intel Sandy Bridge"] = TRUE
    /\ root_patch_dict["Graphics: AMD TeraScale 2"] = TRUE
    /\ InSeq("AMD TeraScale 2", NamesOf(required_patches))
    /\ InSeq("Non-Metal Common", NamesOf(required_patches))
(***************************************************************************)
(* What check_networking_support changes.                                  *)
(***************************************************************************)
\* The fields verify_patch_allowed assigns after detect_gpus has returned.
VerifyFields ==
    {"sip_enabled", "sbm_enabled", "fv_enabled", "dosdude_patched", "amfi_enabled",
     "missing_nv_web_nvram", "missing_nv_web_opengl", "missing_nv_compat",
     "missing_whatever_green"}

\* The fields the claim lists as cleared.
ClearedFields ==
    {"requires_root_kc", "missing_kdk", "nvidia_tesla", "nvidia_web", "amd_ts1",
     "amd_ts2", "iron_gpu", "sandy_gpu", "legacy_gcn", "legacy_polaris", "legacy_vega",
     "brightness_legacy", "legacy_audio", "legacy_gmux", "legacy_keyboard_backlight"}

\* The conditions of lines 234-250 but the record, on the detector d.
KdkOutOfReach(d) ==
    /\ constants.detected_os >= ventura
    /\ d.legacy_wifi = TRUE
    /\ d.requires_root_kc = TRUE
    /\ d.missing_kdk = TRUE
    /\ d.has_network = FALSE

\* C23: a call of detect_patch_set leaves every field of the detector as
\* check_networking_support found it unless the OS is Ventura or newer, legacy
\* wireless and the root KC requirement are true, the KDK is missing, there is no
\* network and no record of an earlier "Legacy Wireless" patch; then it clears
\* requires_root_kc, missing_kdk and the thirteen flags, legacy wireless stays true
\* and the dictionary does not require a network connection. With the record
\* nothing is cleared and the dictionary requires a network connection.
C23_NetworkingFrame ==
    [][calls' = calls + 1 =>
           LET d == before_networking(computer.gpus, before_detect_gpus(det))
               first_run == KdkOutOfReach(d) /\ ~wireless_already_patched
           IN  /\ \A f \in (DOMAIN d) \ VerifyFields :
                     det'[f] = IF first_run /\ f \in ClearedFields THEN FALSE ELSE d[f]
               /\ first_run =>
                     /\ root_patch_dict'["Networking: Legacy Wireless"] = TRUE
                     /\ root_patch_dict'["Validation: Network Connection Required"] = FALSE
               /\ KdkOutOfReach(d) /\ wireless_already_patched =>
                     root_patch_dict'["Validation: Network Connection Required"] = TRUE]_vars

\* A first run: the Sandy Bridge flag of the only GPU and the audio flag are cleared.
C23_Witness ==
    /\ FallbackCase
    /\ ~wireless_already_patched
    /\ Len(computer.gpus) = 1
    /\ EnabledArch(computer.gpus, {"Sandy_Bridge"})
    /\ model \in LegacyAudio
    /\ root_patch_dict["Graphics: Intel Sandy Bridge"] = FALSE
    /\ root_patch_dict["Audio: Legacy Realtek"] = FALSE
    /\ root_patch_dict["Networking: Legacy Wireless"] = TRUE
(***************************************************************************)
(* The root KC requirement and the flags that survive.                     *)
(***************************************************************************)
\* C24: on an OS newer than Monterey the dictionary detect_patch_set returns has
\* the root KC required only if a flag that needs the root KC is true in it.
C24_Claimed ==
    calls > 0 /\ constants.detected_os > monterey =>
        (root_patch_dict["Settings: Supports Auxiliary Cache"] = FALSE
            => \E k \in RootKcKeys : root_patch_dict[k] = TRUE)
(***************************************************************************)
(* The AMFI level and the flags that survive.                              *)
(***************************************************************************)
\* The flags whose detection sets amfi_must_disable on every OS they are raised on
\* (lines 74, 105, 113, 120, 151, 160, 164, 172, 186, 191, 196), the legacy
\* ones also setting amfi_shim_bins when Ventura is in legacy_accel_support.
ShimFlags ==
    {"nvidia_tesla", "nvidia_web", "amd_ts1", "amd_ts2", "iron_gpu", "sandy_gpu"}

AmfiFlags ==
    ShimFlags \cup {"legacy_gcn", "legacy_polaris", "legacy_vega",
                    "haswell_gpu", "broadwell_gpu", "skylake_gpu"}

\* The flags whose detection sets amfi_must_disable from Ventura on only
\* (lines 96, 181, 428).
AmfiFlagsOnVentura == {"kepler_gpu", "ivy_gpu", "legacy_wifi"}

\* The AMFI level the flags that are true in d require.
amfi_level_of_flags(d) ==
    LET must == \/ \E f \in AmfiFlags : d[f] = TRUE
                \/ /\ constants.detected_os >= ventura
                   /\ \E f \in AmfiFlagsOnVentura : d[f] = TRUE
        shim == /\ ventura \in constants.legacy_accel_support
                /\ \E f \in ShimFlags : d[f] = TRUE
    IN  IF must /\ constants.detected_os > catalina
        THEN IF constants.detected_os >= ventura /\ shim THEN 3 ELSE 1
        ELSE 0

\* C25: after detect_patch_set, get_amfi_level_needed is the highest AMFI level
\* required by the capability flags that are true in the detector.
C25_Claimed ==
    calls > 0 => get_amfi_level_needed(det) = amfi_level_of_flags(det)
(***************************************************************************)
(* verify_unpatch_allowed in any call order.                               *)
(***************************************************************************)
\* SIP is enabled on the host: the OS has SIP and the booted csr-active-config
\* lacks a bit check_sip requires.
SipEnabledOnHost == constants.detected_os > yosemite /\ ~SipPermissive

\* C26: at every point of a detector's life, before the first
\* verify_patch_allowed as well as after any number of them, verify_unpatch_allowed
\* returns true only when SIP is not enabled.
C26_Claimed == verify_unpatch_allowed(det) = TRUE => ~SipEnabledOnHost

\* The same once verify_patch_allowed has run at least once.
C26_AfterVerifyPatchAllowed ==
    calls > 0 => (verify_unpatch_allowed(det) = TRUE => ~SipEnabledOnHost)
(***************************************************************************)
(* Conflict resolution and the version filter.                             *)
(***************************************************************************)
\* C27: when the true flags imply both "Catalina GVA" and "Monterey GVA" and the
\* detected OS is inside the range of "Catalina GVA" and outside the range of
\* "Monterey GVA", the patch set generate_patchset returns holds "Catalina GVA".
C27_Claimed ==
    resolved /\ BothGvaImplied =>
        LET cat == SystemPatchDictionary(catalog)
        IN  ~outside_os_support(cat["Catalina GVA"])
            /\ outside_os_support(cat["Monterey GVA"])
                => InSeq("Catalina GVA", NamesOf(required_patches))
(***************************************************************************)
(* The order of the probed GPUs.                                           *)
(***************************************************************************)
\* The orders n GPUs can be enumerated in.
Enumerations(n) == {p \in [1..n -> 1..n] : \A i \in 1..n : \E j \in 1..n : p[j] = i}

Permuted(gpus, p) == [i \in 1..Len(gpus) |-> gpus[p[i]]]

\* The capability and requirement flags of the detector.
DetectionFields == DOMAIN FreshDetector \ VerifyFields

\* C28: whatever order the GPUs of the machine are enumerated in, detect_gpus
\* leaves the capability and requirement flags the call of detect_patch_set
\* has left.
C28_OrderOfGpusIrrelevant ==
    [][calls' = calls + 1 =>
          \A p \in Enumerations(Len(computer.gpus)) :
              LET d == detect_gpus(Permuted(computer.gpus, p), before_detect_gpus(det))
              IN  \A f \in DetectionFields : d[f] = det'[f]]_vars

\* Two different GPUs, one raising a flag the other's Metal support suppresses,
\* have been through detect_gpus.
C28_Witness ==
    /\ calls > 0
    /\ Len(computer.gpus) = 2
    /\ computer.gpus[1].arch = "Tesla"
    /\ computer.gpus[2].arch = "Kepler"
    /\ det.kepler_gpu = TRUE
    /\ det.requires_root_kc = TRUE
(***************************************************************************)
(* resources/build/boot.py: build_boot.build.                              *)
(***************************************************************************)
MaxPartitions == 2
MaxFiles == 2
MaxBuilds == 2

\* The detector plays no part in a build or a download: one machine, a detector
\* just constructed.
NoDetector ==
    /\ model = "MacBookPro8,2"
    /\ computer = Computer(CHOOSE m \in Machines : m.model = "MacBookPro8,2",
                           <<>>, "AirPortBrcmNIC", FALSE, {})
    /\ host = Host(KdkReady, SecurityOff, NvReady)
    /\ constants = CHOOSE c \in GatingConstants : c.detected_os = ventura
    /\ catalog = CHOOSE e \in Editions({0}, {99}) : TRUE
    /\ det = FreshDetector
    /\ csr_values = {}
    /\ root_patch_dict = <<>>
    /\ net_entry = networking_inputs(FreshDetector)
    /\ required_patches = <<>>
    /\ resolved = FALSE
    /\ raised = None
    /\ calls = 0

\* The boot loader files an EFI partition can hold, as _get_bootloader_entries
\* yields them (lines 34-48): order is the index of the first pattern of
\* known_boot_loader_efi_file_patterns the file matches, value is the path
\* relative to the mount point after ntpath.normpath.
BootLoaderFiles ==
    {[order |-> 0, value |-> "\\EFI\\Microsoft\\Boot\\bootmgfw.efi"],
     [order |-> 1, value |-> "\\EFI\\ubuntu\\grubx64.efi"],
     [order |-> 1, value |-> "\\EFI\\debian\\grubx64.efi"]}

NoRepeats(s) == \A i, j \in DOMAIN s : s[i] = s[j] => i = j

\* What efi_path.rglob("*") finds on one partition, in the order the file system
\* lists it: no path twice.
PartitionContents == {s \in SeqsUpTo(BootLoaderFiles, MaxFiles) : NoRepeats(s)}

\* Lines 50-65: the entries of the partitions whose mount returned 0, in the
\* order of the partitions, from partition i on.
RECURSIVE found_bootloader_entries(_, _, _)
found_bootloader_entries(partitions, mounted, i) ==
    IF i > Len(partitions) THEN <<>>
    ELSE (IF i \in mounted THEN partitions[i] ELSE <<>>)
             \o found_bootloader_entries(partitions, mounted, i + 1)

\* list.sort(key = lambda e: e.order): stable, from order o on.
RECURSIVE sort_by_order(_, _)
sort_by_order(entries, o) ==
    IF \A k \in DOMAIN entries : entries[k].order < o THEN <<>>
    ELSE SelectSeq(entries, LAMBDA e : e.order = o) \o sort_by_order(entries, o + 1)

\* Lines 69-70: the entries found whose value the configuration does not hold.
new_boot_loader_entries(found, config) ==
    SelectSeq(found, LAMBDA e : ~InSeq(e.value, config))

\* build() (lines 50-89). mounted are the partitions whose mount returned 0 and
\* choice is the answer to the prompt of line 79.
Build ==
    /\ build_calls < MaxBuilds
    /\ \E mounted \in SUBSET DOMAIN efi_partitions, choice \in {"y", "n"} :
          LET found == found_bootloader_entries(efi_partitions, mounted, 1)
              new == sort_by_order(new_boot_loader_entries(found, bless_override), 0)
          IN  IF Len(new) > 0
              THEN IF gui_mode = FALSE /\ choice # "y"
                   THEN /\ build_returned' = "False"
                        /\ UNCHANGED bless_override
                   ELSE /\ bless_override' =
                               [k \in DOMAIN new |-> new[k].value] \o bless_override
                        /\ build_returned' = None
              ELSE /\ build_returned' = None
                   /\ UNCHANGED bless_override
    /\ build_calls' = build_calls + 1
    /\ UNCHANGED <<efi_partitions, gui_mode>>
    /\ UNCHANGED <<detector_vars, download_vars>>

NextBoot == Build

\* The configuration the build starts from holds no value twice.
InitBoot ==
    /\ NoDetector
    /\ NoDownload
    /\ efi_partitions \in SeqsUpTo(PartitionContents, MaxPartitions)
    /\ gui_mode \in BOOLEAN
    /\ bless_override \in
          {<<>>, <<"\\EFI\\OC\\OpenCore.efi">>,
           <<"\\EFI\\ubuntu\\grubx64.efi", "\\EFI\\OC\\OpenCore.efi">>}
    /\ build_returned = NotCalled
    /\ build_calls = 0

SpecBoot == InitBoot /\ [][NextBoot]_vars

\* C29: Misc/BlessOverride held no value twice before the first build, and holds
\* no value twice after any number of builds.
C29_Claimed == NoRepeats(bless_override)
(***************************************************************************)
(* resources/utilities.py: the sleep inhibitor (lines 207-223) and          *)
(* download_file (lines 456-539).                                          *)
(***************************************************************************)
MaxDownloads == 3
MaxSpawned == 3

\* Content-Length as line 467 reads it (0 when the header is missing), the free
\* space get_free_space reports and the bytes the response delivers.
FileSizes == {0, 1024, 2048, 8192}
FreeSpaces == {4096}
ContentSizes == {0, 2048}

\* disable_sleep_while_running (lines 209-216) on the inhibitor state s: a
\* caffeinate process is started only when none is held.
disable_sleep_while_running(s) ==
    IF s.sleep_process = {}
    THEN [sleep_process |-> {s.spawned + 1},
          caffeinate |-> s.caffeinate \cup {s.spawned + 1},
          spawned |-> s.spawned + 1]
    ELSE s

\* enable_sleep_after_running (lines 218-223): the process held is killed.
enable_sleep_after_running(s) ==
    IF s.sleep_process # {}
    THEN [s EXCEPT !.sleep_process = {}, !.caffeinate = @ \ s.sleep_process]
    ELSE s

Inhibitor == [sleep_process |-> sleep_process, caffeinate |-> caffeinate,
              spawned |-> spawned]

\* Whether a call of disable_sleep_while_running stays inside the bound on processes.
CanDisable == sleep_process # {} \/ spawned < MaxSpawned

\* Another caller of utilities.disable_sleep_while_running.
DisableSleepWhileRunning ==
    /\ CanDisable
    /\ LET s == disable_sleep_while_running(Inhibitor)
       IN  /\ sleep_process' = s.sleep_process
           /\ caffeinate' = s.caffeinate
           /\ spawned' = s.spawned
    /\ atexit_registered' = TRUE
    /\ UNCHANGED <<location, download_returned, download_calls>>
    /\ UNCHANGED <<detector_vars, boot_vars>>

\* Another caller of utilities.enable_sleep_after_running, atexit included.
EnableSleepAfterRunning ==
    /\ LET s == enable_sleep_after_running(Inhibitor)
       IN  /\ sleep_process' = s.sleep_process
           /\ caffeinate' = s.caffeinate
           /\ spawned' = s.spawned
    /\ UNCHANGED <<atexit_registered, location, download_returned, download_calls>>
    /\ UNCHANGED <<detector_vars, boot_vars>>

\* Lines 474-478: the download is given up for lack of space.
not_enough_space(total_file_size, free_space) ==
    total_file_size > 1024 /\ total_file_size > free_space

\* download_file(link, location, is_gui, verify_checksum): network is what
\* verify_network_connection(link) answers.
DownloadFile ==
    /\ download_calls < MaxDownloads
    /\ \E network \in BOOLEAN, total_file_size \in FileSizes, free_space \in FreeSpaces,
          content \in ContentSizes, verify_checksum \in BOOLEAN :
          IF network = FALSE
          THEN /\ download_returned' = None
               /\ UNCHANGED <<sleep_process, caffeinate, spawned, atexit_registered,
                              location>>
          ELSE /\ CanDisable
               /\ atexit_registered' = TRUE
               /\ LET held == disable_sleep_while_running(Inhibitor)
                      released == enable_sleep_after_running(held)
                  IN  IF not_enough_space(total_file_size, free_space)
                      THEN /\ sleep_process' = held.sleep_process
                           /\ caffeinate' = held.caffeinate
                           /\ spawned' = held.spawned
                           /\ location' = {}
                           /\ download_returned' = "False"
                      ELSE /\ sleep_process' = released.sleep_process
                           /\ caffeinate' = released.caffeinate
                           /\ spawned' = released.spawned
                           /\ location' = {content}
                           /\ download_returned' =
                                  IF verify_checksum = TRUE THEN "checksum" ELSE "True"
    /\ download_calls' = download_calls + 1
    /\ UNCHANGED <<detector_vars, boot_vars>>

NextDownload == DownloadFile \/ DisableSleepWhileRunning \/ EnableSleepAfterRunning

\* utilities as imported; the download location may hold a file of an earlier run.
InitDownload ==
    /\ NoDetector
    /\ NoBuild
    /\ sleep_process = {}
    /\ caffeinate = {}
    /\ spawned = 0
    /\ atexit_registered = FALSE
    /\ location \in {{}} \cup {{n} : n \in ContentSizes}
    /\ download_returned = NotCalled
    /\ download_calls = 0

SpecDownload == InitDownload /\ [][NextDownload]_vars

\* C30: a call of download_file that has called disable_sleep_while_running and
\* returns (True, a checksum, or False) leaves sleep_process None and no
\* caffeinate process it started running.
C30_Claimed ==
    [][download_calls' = download_calls + 1
          /\ download_returned' \in {"True", "checksum", "False"}
       => /\ sleep_process' = {}
          /\ \A p \in caffeinate' : p <= spawned]_vars

====
